---- MODULE Spec2Model ----
(***************************************************************************)
(* Model of PokemonResearchAgent (src/pokemon_research.py): the bounded    *)
(* tool-call loop of research(), the dispatcher _execute_tool with its     *)
(* durable function cache and session call set, and clear_cache; and of    *)
(* the SQLite caches of the web application (src/app.py): ResearchCache,   *)
(* ResourceCache and DeepResearchBot.conduct_research.  A third             *)
(* specification interleaves the statements of research() invocations      *)
(* that run in several threads on one agent.  Further specifications       *)
(* apply _synthesize_knowledge and _explore_object_recursively to drawn    *)
(* arguments, interleave the statements of ResearchCache methods run by    *)
(* requests on separate connections, and use the research cache through    *)
(* the semantic lookup strategy of the specification document.             *)
(*                                                                         *)
(* Texts are modelled as tuples whose first element names their shape:     *)
(*   <<"text", s>>            a literal text (model answer, prompt)        *)
(*   <<"json", v>>            json.dumps of the explored tool result v     *)
(*   <<"error", tool, m, h>>  "Error executing tool: m" (+ hint h)         *)
(*   <<"toolnotfound", tool>> "Tool <tool> not found"                      *)
(*   <<"cached", t>>          "[CACHED] ... Result: t"                     *)
(*   <<"nodata", q>>          the "I wasn't able to collect ..." message   *)
(*   <<"fallback", q, c, r, n>> the output of _create_fallback_summary     *)
(* A Python dict is modelled as the sequence of its <<key, value>> pairs   *)
(* in insertion order.                                                     *)
(***************************************************************************)
EXTENDS Integers, Sequences, FiniteSets, TLC

\* ---------------------------------------------------------------- bounds
MaxIterations == 2
MaxToolCalls == 2
MaxInvocations == 2
MaxStores == 2        \* rows inserted into the cache tables
MaxHits == 2          \* access_count a lookup may still raise
MaxAdvances == 2      \* steps of the wall clock
TicksPerSecond == 2   \* resolution of the wall clock below one second
NumThreads == 2       \* threads that call research() on the shared agent
MaxResults == 2       \* tool entries and recorded calls handed to the synthesizer
MaxDepth == 4         \* largest max_depth handed to _explore_object_recursively
NumConnections == 2   \* requests that use the research cache at the same time
MaxNesting == 2       \* containers nested around an explored value

\* ---------------------------------------------------------------- inputs
Queries == {"What is Pikachu's type?"}

NoneVal == <<"None">>
EmptyText == <<"text", "">>
FinalTexts == {EmptyText, <<"text", "Pikachu is an Electric-type Pokemon.">>}
SynthesisTexts == {<<"text", "synthesized analysis">>}

PName == <<"name", "pikachu">>
PId == <<"id", "25">>
PArgs == <<"args", "[]">>
PKwargs == <<"kwargs", "{}">>

\* tool_call.function.arguments is a JSON string: either it decodes to a
\* dict, or json.loads raises
Decodes(d) == [ok |-> TRUE, dict |-> d]
Malformed == [ok |-> FALSE, dict |-> <<>>]
Request(n, a) == [name |-> n, arguments |-> a]

\* self.tool_functions after _load_pokebase_tools
tool_functions == {"pokebase_pokemon"}

\* The tool-call requests the reasoning service of one run draws from.  A run
\* uses one repertoire, so the runs with different repertoires add up instead
\* of multiplying.
KeyOrderRequests ==
  { Request("pokebase_pokemon", Decodes(<<PName>>)),
    Request("pokebase_pokemon", Decodes(<<PName, PId>>)),
    Request("pokebase_pokemon", Decodes(<<PId, PName>>)) }
WrapperRequests ==
  { Request("pokebase_pokemon", Decodes(<<PName>>)),
    Request("pokebase_pokemon", Decodes(<<PName, PArgs>>)),
    Request("pokebase_pokemon", Decodes(<<PKwargs, PName>>)) }
FaultyRequests ==
  { Request("pokebase_pokemon", Decodes(<<PName>>)),
    Request("pokebase_nosuch", Decodes(<<PName>>)),
    Request("pokebase_pokemon", Malformed) }
Repertoires == {KeyOrderRequests, WrapperRequests, FaultyRequests}

ToolCallLists(requests) ==
  UNION {[1..n -> requests] : n \in 1..MaxToolCalls}

\* what one call of the underlying pokebase operation does
ExcMessages == {"Resource not found", "connection timed out"}
OpOutcomes ==
  {<<"value", "electric">>} \cup {<<"raise", m>> : m \in ExcMessages}

\* ---------------------------------------------------------------- state
VARIABLES
  repertoire,            \* the tool-call requests the reasoning service of this run uses
  simulation,            \* self._is_simulation_mode
  function_cache,        \* self.function_cache: cache key -> text
  current_session_calls, \* self.current_session_calls: set of cache keys
  pc,                    \* "idle" | "await" | "tools" | "finish"
  query,                 \* research(query, ...)
  max_iterations,        \* research(..., max_iterations)
  iteration,             \* the for-loop variable; Unbound until the loop binds it
  messages,              \* the conversation list
  function_call_history, \* list of <<tool_name, arguments>>
  final_response,        \* None or the final text
  cached_calls,          \* counter of "[CACHED]" results
  pending,               \* tool calls of the current response not yet dispatched
  ret,                   \* what the last research() call returned / raised
  \* ---- observation variables (do not influence the program)
  invocations,           \* number of research() calls started
  serviceCalls,          \* chat.completions.create calls made by the loop of this invocation
  synthCalls,            \* _synthesize_knowledge calls of this invocation
  loopExit,              \* "none" | "final" | "transport" | "decode" | "exhausted"
  opLog,                 \* <<tool, set of argument pairs>> -> runs of the operation since clear_cache
  lastDispatch,          \* the _execute_tool call made by the last step, or NoDispatch
  lastOp                 \* name of the operation the last step belongs to

\* the database of src/app.py and the wall clock
VARIABLES
  research_cache,        \* table research_cache: set of rows
  resource_cache,        \* table resource_cache: set of rows
  sqlite_sequence,       \* AUTOINCREMENT: largest id ever used, per table
  clock,                 \* UTC wall clock, in ticks
  utc_offset,            \* hours the local time zone is ahead of UTC
  workload,              \* the cache calls the clients of this run draw from
  \* ---- observation variables
  advances,              \* number of clock steps taken
  hitLog,                \* id of a stored research row -> lookups that returned it
  lastCall               \* the cache operation of the last step and what it returned

researchVars ==
  << repertoire, simulation, function_cache, current_session_calls, pc, query,
     max_iterations, iteration, messages, function_call_history, final_response,
     cached_calls, pending, ret, invocations, serviceCalls, synthCalls, loopExit,
     opLog, lastDispatch, lastOp >>

dbVars ==
  << research_cache, resource_cache, sqlite_sequence, clock, utc_offset,
     workload, advances, hitLog, lastCall >>

\* threads calling research() on one agent
VARIABLES
  threads                \* thread -> its place in research() / _execute_tool and its locals

\* one call of _explore_object_recursively
VARIABLES
  exploration            \* the value handed in, max_depth and what the call returned

\* requests that use the research cache at the same time
VARIABLES
  connections            \* connection -> its place in the cache method it runs

vars == << researchVars, dbVars, threads, exploration, connections >>

agentVars == << function_cache, current_session_calls >>
localVars ==
  << query, max_iterations, iteration, messages, function_call_history,
     final_response, cached_calls, pending >>

EmptyMap == [k \in {} |-> <<>>]
NoDispatch == [made |-> FALSE]
NoRet == [kind |-> "none"]
Raised == [kind |-> "raised"]

\* ---------------------------------------------------------------- helpers
Last(s) == s[Len(s)]

\* lexicographic order of the argument names used
KeyRank(k) ==
  CASE k = "args" -> 1 [] k = "id" -> 2 [] k = "kwargs" -> 3 [] k = "name" -> 4

\* the dict as a mathematical set of pairs (order forgotten)
ArgSet(arguments) == {arguments[i] : i \in DOMAIN arguments}

RECURSIVE InsertByKey(_, _)
InsertByKey(p, s) ==
  IF s = <<>> THEN <<p>>
  ELSE IF KeyRank(p[1]) <= KeyRank(Head(s)[1]) THEN <<p>> \o s
  ELSE <<Head(s)>> \o InsertByKey(p, Tail(s))

RECURSIVE SortKeys(_)
SortKeys(arguments) ==
  IF arguments = <<>> THEN <<>>
  ELSE InsertByKey(Head(arguments), SortKeys(Tail(arguments)))

\* mutant: the serialization keeps the insertion order (no sort_keys=True)
CacheKeyUnsorted(tool_name, arguments) == <<tool_name, arguments>>

\* cache_key = f"{tool_name}_{json.dumps(arguments, sort_keys=True)}"
CacheKey(tool_name, arguments) == <<tool_name, SortKeys(arguments)>>

RECURSIVE PopKey(_, _)
PopKey(arguments, k) ==
  IF arguments = <<>> THEN <<>>
  ELSE IF Head(arguments)[1] = k THEN PopKey(Tail(arguments), k)
  ELSE <<Head(arguments)>> \o PopKey(Tail(arguments), k)

\* mutant: only "args" is popped
StripRogueArgsOnly(arguments) == PopKey(arguments, "args")

\* for rogue_arg in ["args", "kwargs"]: arguments.pop(rogue_arg)
StripRogue(arguments) == PopKey(PopKey(arguments, "args"), "kwargs")

\* "not found" in str(e).lower()
MentionsNotFound(m) == m = "Resource not found"

\* result.startswith("[CACHED]")
StartsWithCached(text) == text[1] = "cached"

\* Python truthiness of final_response (None and "" are falsy)
Truthy(text) == text # NoneVal /\ text # EmptyText

\* mutant: range(max_iterations + 1)
HasNextIterationOffByOne(it, budget) == it + 1 <= budget

\* for iteration in range(max_iterations): is there a value after `it`?
HasNextIteration(it, budget) == it + 1 < budget

\* mutant: the session set survives the start of an invocation
ResetSessionKeep(calls) == calls

\* self.current_session_calls.clear()
ResetSession(calls) == {}

\* mutant: failures are not cached
CacheErrorSkip(cache, cache_key, error_msg) == cache

\* self.function_cache[cache_key] = error_msg
CacheError(cache, cache_key, error_msg) == (cache_key :> error_msg) @@ cache

\* a success path that skips the durable cache
CacheResultSkip(cache, cache_key, result_json) == cache

\* self.function_cache[cache_key] = result_json
CacheResult(cache, cache_key, result_json) == (cache_key :> result_json) @@ cache

\* mutant: partial history is thrown away when there is no final answer
ResultBranchNoSynth(final, history) ==
  IF Truthy(final) THEN "final" ELSE "nodata"

\* if final_response: ... elif function_call_history: ... else: ...
ResultBranch(final, history) ==
  IF Truthy(final) THEN "final"
  ELSE IF history # <<>> THEN "synth"
  ELSE "nodata"

\* error_msg of the except branch of _execute_tool
ErrorMsg(tool_name, arguments, m) ==
  <<"error", tool_name, m, IF MentionsNotFound(m) THEN arguments ELSE <<>>>>

\* a registry that answers for every name
RegisteredAny(tool_name) == TRUE

\* `tool_name in self.tool_functions` (the test of line 170)
Registered(tool_name) == tool_name \in tool_functions

\* _execute_tool(tool_name, arguments); outcome is what func(**arguments)
\* does if it is reached.  Yields the returned text and the new agent state.
ExecTool(tool_name, arguments, outcome) ==
  LET cache_key == CacheKey(tool_name, arguments)
      same == [fc |-> function_cache, sess |-> current_session_calls,
               invoked |-> FALSE]
  IN
  IF cache_key \in DOMAIN function_cache
    THEN [result |-> function_cache[cache_key], path |-> "durable"] @@ same
  ELSE IF cache_key \in current_session_calls
    THEN [result |-> <<"cached", <<"text", "Result not found in cache">>>>,
          path |-> "session"] @@ same
  ELSE IF ~Registered(tool_name)
    THEN [result |-> <<"toolnotfound", tool_name>>, path |-> "notfound"] @@ same
  ELSE IF outcome[1] = "value"
    THEN [result |-> <<"json", outcome[2]>>, path |-> "fresh",
          fc |-> CacheResult(function_cache, cache_key, <<"json", outcome[2]>>),
          sess |-> current_session_calls \cup {cache_key},
          invoked |-> TRUE]
  ELSE [result |-> ErrorMsg(tool_name, arguments, outcome[2]), path |-> "error",
        fc |-> CacheError(function_cache, cache_key,
                          ErrorMsg(tool_name, arguments, outcome[2])),
        sess |-> current_session_calls \cup {cache_key},
        invoked |-> TRUE]

\* observation: what the operation did and which text came of it, per
\* (tool, argument set), since the last clear_cache
DKey(tool_name, arguments) == <<tool_name, ArgSet(arguments)>>

LogOp(log, tool_name, arguments, outcome, r) ==
  IF r.invoked
    THEN LET k == DKey(tool_name, arguments)
             old == IF k \in DOMAIN log THEN log[k] ELSE <<>>
         IN (k :> Append(old, [outcome |-> outcome, text |-> r.result])) @@ log
    ELSE log

Dispatched(tool_name, raw, arguments, r, inResearch) ==
  [made |-> TRUE, tool |-> tool_name, raw |-> raw, arguments |-> arguments,
   key |-> CacheKey(tool_name, arguments), path |-> r.path,
   invoked |-> r.invoked, result |-> r.result, inResearch |-> inResearch]

IsToolMsg(m) == m.role = "tool"

\* tool_results of _synthesize_knowledge
ToolResults(msgs) ==
  LET t == SelectSeq(msgs, IsToolMsg)
  IN [i \in DOMAIN t |-> [tool |-> t[i].name, content |-> t[i].content]]

\* result['content'][:200] cuts the text after PrefixChars characters.  A
\* text is a tuple: the symbolic texts of the research loop are shorter than
\* the prefix, the character sequences of FallbackSpec need not be.
PrefixChars == 200

\* a slice that cuts nothing
TruncateNone(content) == content

\* content[:200]
Truncate(content) ==
  IF Len(content) <= PrefixChars THEN content ELSE SubSeq(content, 1, PrefixChars)

\* None[:200] raises TypeError
TypeErrorRaised == <<"raise", "TypeError">>

\* _create_fallback_summary(query, function_calls, tool_results): the header
\* with the query, the calls listed (lines 253-256), the results listed with
\* their prefixes (lines 258-261) and whether the closing note of line 263
\* is there
FallbackSummary(q, function_calls, tool_results) ==
  IF \E i \in DOMAIN tool_results : tool_results[i].content = NoneVal
    THEN TypeErrorRaised
    ELSE <<"fallback", q, function_calls,
           [i \in DOMAIN tool_results |->
              [tool |-> tool_results[i].tool,
               prefix200 |-> Truncate(tool_results[i].content)]],
           tool_results = <<>>>>

SynthOutcomes == SynthesisTexts \cup {<<"raise">>}

\* _synthesize_knowledge(query, messages, function_calls)
SynthesizeKnowledge(q, msgs, function_calls, outcome) ==
  IF outcome = <<"raise">>
    THEN FallbackSummary(q, function_calls, ToolResults(msgs))
    ELSE outcome

Unbound == -1
Min(a, b) == IF a <= b THEN a ELSE b

\* the loop variable as it stands, without the + 1
IterationsUsedIndex(it, budget) == Min(it, budget)

\* "iterations_used": min(iteration + 1, max_iterations) (line 390)
IterationsUsed(it, budget) == Min(it + 1, budget)

SystemPrompt == <<"text", "system_prompt">>

SimulatedResult ==
  [kind |-> "result",
   results |-> <<"text", "simulated research result">>,
   reasoning |-> <<"text", "Reasoning is provided as a sequence of pokebase function calls">>,
   success |-> TRUE, iterations_used |-> 0, cached_calls |-> 0, unique_calls |-> 0]

NoWorkload == [queries |-> {}]

\* a thread that is not inside research()
Threads == 1..NumThreads
IdleThread ==
  [pc |-> "idle", runs |-> 0, calls |-> 0, tool |-> "", arguments |-> <<>>,
   cache_key |-> <<>>, text |-> NoneVal, path |-> "none", recorded |-> {}]
NoThreads == [t \in Threads |-> IdleThread]

\* the database after init_db() (lines 16-62), and the clock
NoCall == [op |-> "none"]

\* no value is being explored
NoExploration == [op |-> "none"]

\* every request is between two cache calls
Connections == 1..NumConnections
IdleConnection == [pc |-> "idle"]
NoConnections == [c \in Connections |-> IdleConnection]
EmptyDatabase ==
  /\ research_cache = {}
  /\ resource_cache = {}
  /\ sqlite_sequence = [research_cache |-> 0, resource_cache |-> 0]
  /\ clock = 0
  /\ advances = 0
  /\ hitLog = EmptyMap
  /\ lastCall = NoCall

\* ---------------------------------------------------------------- Init
\* the agent after __init__ (lines 13-23)
AgentInit ==
  /\ repertoire \in Repertoires
  /\ simulation \in BOOLEAN
  /\ function_cache = EmptyMap
  /\ current_session_calls = {}
  /\ pc = "idle"
  /\ query = NoneVal
  /\ max_iterations = 0
  /\ iteration = Unbound
  /\ messages = <<>>
  /\ function_call_history = <<>>
  /\ final_response = NoneVal
  /\ cached_calls = 0
  /\ pending = <<>>
  /\ ret = NoRet
  /\ invocations = 0
  /\ serviceCalls = 0
  /\ synthCalls = 0
  /\ loopExit = "none"
  /\ opLog = EmptyMap
  /\ lastDispatch = NoDispatch
  /\ lastOp = "init"

Init ==
  /\ AgentInit
  /\ EmptyDatabase
  /\ utc_offset = 0
  /\ workload = NoWorkload
  /\ threads = NoThreads
  /\ exploration = NoExploration
  /\ connections = NoConnections

\* the locals of a research() frame that has not run its loop yet
FreshLocals(q, budget) ==
  /\ query' = q
  /\ max_iterations' = budget
  /\ iteration' = IF budget >= 1 THEN 0 ELSE Unbound
  /\ messages' = <<>>
  /\ function_call_history' = <<>>
  /\ final_response' = NoneVal
  /\ cached_calls' = 0
  /\ pending' = <<>>
  /\ serviceCalls' = 0
  /\ synthCalls' = 0
  /\ loopExit' = "none"

\* ---------------------------------------------------------------- actions
\* research(query, max_iterations): lines 271-311, up to the first loop test
Research(q, budget) ==
  /\ pc = "idle"
  /\ invocations < MaxInvocations
  /\ invocations' = invocations + 1
  /\ current_session_calls' = ResetSession(current_session_calls)
  /\ lastOp' = "research"
  /\ lastDispatch' = NoDispatch
  /\ UNCHANGED << repertoire, simulation, function_cache, opLog >>
  /\ IF simulation
       THEN /\ FreshLocals(NoneVal, 0)
            /\ pc' = "idle"
            /\ ret' = SimulatedResult
       ELSE /\ query' = <<"text", q>>
            /\ max_iterations' = budget
            /\ iteration' = IF budget >= 1 THEN 0 ELSE Unbound
            /\ messages' = << [role |-> "system", content |-> SystemPrompt],
                              [role |-> "user", content |-> <<"text", q>>] >>
            /\ function_call_history' = <<>>
            /\ final_response' = NoneVal
            /\ cached_calls' = 0
            /\ pending' = <<>>
            /\ serviceCalls' = 0
            /\ synthCalls' = 0
            /\ loopExit' = IF budget >= 1 THEN "none" ELSE "exhausted"
            /\ pc' = IF budget >= 1 THEN "await" ELSE "finish"
            /\ ret' = NoRet

\* a reversed iteration would take the last tool call first
LastToolCall(tool_calls) == Last(tool_calls)

\* `for tool_call in message.tool_calls`: the tool call the next pass takes
NextToolCall(tool_calls) == Head(tool_calls)

\* what one chat.completions.create call of the loop yields
ServiceResponses(requests) ==
  {[kind |-> "fail"]}
    \cup {[kind |-> "final", content |-> t] : t \in FinalTexts}
    \cup {[kind |-> "tools", tool_calls |-> c] : c \in ToolCallLists(requests)}

\* one AwaitingModel visit: lines 312-335 and 357-364
ModelCall(resp) ==
  /\ pc = "await"
  /\ serviceCalls' = serviceCalls + 1
  /\ lastOp' = "model"
  /\ lastDispatch' = NoDispatch
  /\ UNCHANGED << repertoire, simulation, agentVars, query, max_iterations, iteration,
                  function_call_history, cached_calls, ret, invocations,
                  synthCalls, opLog >>
  /\ CASE resp.kind = "fail" ->
            /\ loopExit' = "transport"
            /\ pc' = "finish"
            /\ UNCHANGED << messages, final_response, pending >>
       [] resp.kind = "final" ->
            /\ messages' = Append(messages,
                 [role |-> "assistant", content |-> resp.content, tool_calls |-> <<>>])
            /\ final_response' = resp.content
            /\ loopExit' = "final"
            /\ pc' = "finish"
            /\ UNCHANGED pending
       [] resp.kind = "tools" ->
            /\ messages' = Append(messages,
                 [role |-> "assistant", content |-> NoneVal, tool_calls |-> resp.tool_calls])
            /\ pending' = resp.tool_calls
            /\ pc' = "tools"
            /\ UNCHANGED << final_response, loopExit >>

\* one pass of `for tool_call in message.tool_calls`: lines 337-356, and the
\* loop tests that follow the last pass
DispatchTool(outcome) ==
  /\ pc = "tools"
  /\ pending # <<>>
  /\ lastOp' = "dispatch"
  /\ UNCHANGED << repertoire, simulation, query, max_iterations, final_response, ret,
                  invocations, serviceCalls, synthCalls >>
  /\ LET tool_call == NextToolCall(pending)
         tool_name == tool_call.name
     IN
     IF ~tool_call.arguments.ok
       THEN \* json.loads raises: caught at line 362, break
            /\ loopExit' = "decode"
            /\ pc' = "finish"
            /\ lastDispatch' = NoDispatch
            /\ UNCHANGED << agentVars, iteration, messages, function_call_history,
                            cached_calls, pending, opLog >>
       ELSE LET arguments == StripRogue(tool_call.arguments.dict)
                r == ExecTool(tool_name, arguments, outcome)
            IN
            /\ function_call_history' = Append(function_call_history, <<tool_name, arguments>>)
            /\ function_cache' = r.fc
            /\ current_session_calls' = r.sess
            /\ opLog' = LogOp(opLog, tool_name, arguments, outcome, r)
            /\ lastDispatch' = Dispatched(tool_name, tool_call.arguments.dict, arguments, r, TRUE)
            /\ cached_calls' = IF StartsWithCached(r.result) THEN cached_calls + 1 ELSE cached_calls
            /\ messages' = Append(messages,
                 [role |-> "tool", content |-> r.result, name |-> tool_name,
                  tool_call_id |-> Len(function_call_history) + 1])
            /\ pending' = Tail(pending)
            /\ IF Tail(pending) # <<>>
                 THEN UNCHANGED << pc, iteration, loopExit >>
                 ELSE IF HasNextIteration(iteration, max_iterations)
                   THEN /\ iteration' = iteration + 1
                        /\ pc' = "await"
                        /\ UNCHANGED loopExit
                   ELSE /\ pc' = "finish"
                        /\ loopExit' = "exhausted"
                        /\ UNCHANGED iteration

\* after the loop: lines 366-395
Finish(synthOutcome) ==
  /\ pc = "finish"
  /\ pc' = "idle"
  /\ lastOp' = "return"
  /\ lastDispatch' = NoDispatch
  /\ UNCHANGED << repertoire, simulation, agentVars, localVars, invocations, serviceCalls,
                  loopExit, opLog >>
  /\ LET unique_calls == Len(function_call_history) - cached_calls
         branch == ResultBranch(final_response, function_call_history)
         results ==
           CASE branch = "final" -> final_response
             [] branch = "synth" ->
                  SynthesizeKnowledge(query, messages, function_call_history, synthOutcome)
             [] branch = "nodata" -> <<"nodata", query>>
     IN
     /\ synthCalls' = IF branch = "synth" THEN synthCalls + 1 ELSE synthCalls
     /\ ret' =
          IF iteration = Unbound \/ results = TypeErrorRaised
            THEN Raised   \* `iteration` was never bound: UnboundLocalError at line 390
            ELSE [kind |-> "result",
                  results |-> results,
                  reasoning |-> function_call_history,
                  success |-> branch # "nodata",
                  iterations_used |-> IterationsUsed(iteration, max_iterations),
                  cached_calls |-> cached_calls,
                  unique_calls |-> unique_calls]

\* the locals of the last research() frame are gone once another operation runs
DropFrame ==
  /\ FreshLocals(NoneVal, 0)
  /\ ret' = NoRet

\* clear_cache(): lines 407-411
ClearCache ==
  /\ pc = "idle"
  /\ function_cache' = EmptyMap
  /\ current_session_calls' = {}
  /\ opLog' = EmptyMap
  /\ lastOp' = "clear_cache"
  /\ lastDispatch' = NoDispatch
  /\ DropFrame
  /\ UNCHANGED << repertoire, simulation, pc, invocations >>

\* _execute_tool(tool_name, arguments) called outside research(): lines 156-199
ExecuteTool(tool_name, arguments, outcome) ==
  /\ pc = "idle"
  /\ LET r == ExecTool(tool_name, arguments, outcome)
     IN /\ function_cache' = r.fc
        /\ current_session_calls' = r.sess
        /\ opLog' = LogOp(opLog, tool_name, arguments, outcome, r)
        /\ lastDispatch' = Dispatched(tool_name, arguments, arguments, r, FALSE)
  /\ lastOp' = "execute_tool"
  /\ DropFrame
  /\ UNCHANGED << repertoire, simulation, pc, invocations >>

\* _execute_tool is handed keyword arguments of the tool's schema
DirectCalls(requests) ==
  {x \in requests : x.arguments.ok /\ StripRogue(x.arguments.dict) = x.arguments.dict}

\* the agent does not use the database of src/app.py
Next ==
  \/ /\ \E q \in Queries, budget \in 0..MaxIterations : Research(q, budget)
     /\ UNCHANGED << dbVars, threads, exploration, connections >>
  \/ /\ \E resp \in ServiceResponses(repertoire) : ModelCall(resp)
     /\ UNCHANGED << dbVars, threads, exploration, connections >>
  \/ /\ \E outcome \in OpOutcomes : DispatchTool(outcome)
     /\ UNCHANGED << dbVars, threads, exploration, connections >>
  \/ /\ \E synthOutcome \in SynthOutcomes : Finish(synthOutcome)
     /\ UNCHANGED << dbVars, threads, exploration, connections >>
  \/ /\ ClearCache
     /\ UNCHANGED << dbVars, threads, exploration, connections >>
  \/ /\ \E c \in DirectCalls(repertoire), outcome \in OpOutcomes :
          ExecuteTool(c.name, c.arguments.dict, outcome)
     /\ UNCHANGED << dbVars, threads, exploration, connections >>

Spec == Init /\ [][Next]_vars

\* ------------------------------------------------------------ the synthesizer
\* _synthesize_knowledge applied to a conversation, whatever its texts.
CharAt(i) == <<"a", "b", "c", "d", "e", "f", "g">>[(i % 7) + 1]

\* a text of n characters
TextOf(n) == [i \in 1..n |-> CharAt(i)]

ContentLengths == {0, PrefixChars - 1, PrefixChars, PrefixChars + 1}

\* the recorded calls handed to the synthesizer
CallHistories ==
  UNION {[1..n -> {<<"pokebase_pokemon", <<PName>>>>, <<"pokebase_nosuch", <<PId>>>>}] :
           n \in 0..MaxResults}

\* the tool entries of a conversation
ToolEntries ==
  [role : {"tool"}, content : {TextOf(n) : n \in ContentLengths},
   name : {"pokebase_pokemon"}, tool_call_id : {1}]
    \cup [role : {"tool"}, content : {TextOf(PrefixChars + 1)},
          name : {"pokebase_nosuch"}, tool_call_id : {1}]

\* system, user, and a model response (whose content is None) with its
\* tool entries
Conversation(q, entries) ==
  << [role |-> "system", content |-> SystemPrompt],
     [role |-> "user", content |-> q] >>
    \o (IF entries = <<>> THEN <<>>
        ELSE << [role |-> "assistant", content |-> NoneVal, tool_calls |-> <<>>] >>
               \o entries)

Conversations(q) ==
  {Conversation(q, entries) :
     entries \in UNION {[1..n -> ToolEntries] : n \in 0..MaxResults}}

FallbackInit ==
  /\ repertoire = KeyOrderRequests
  /\ simulation = FALSE
  /\ function_cache = EmptyMap
  /\ current_session_calls = {}
  /\ pc = "idle"
  /\ query \in {<<"text", q>> : q \in Queries}
  /\ max_iterations = 0
  /\ iteration = Unbound
  /\ messages \in Conversations(query)
  /\ function_call_history \in CallHistories
  /\ final_response = NoneVal
  /\ cached_calls = 0
  /\ pending = <<>>
  /\ ret = NoRet
  /\ invocations = 0
  /\ serviceCalls = 0
  /\ synthCalls = 0
  /\ loopExit = "none"
  /\ opLog = EmptyMap
  /\ lastDispatch = NoDispatch
  /\ lastOp = "init"
  /\ EmptyDatabase
  /\ utc_offset = 0
  /\ workload = NoWorkload
  /\ threads = NoThreads
  /\ exploration = NoExploration
  /\ connections = NoConnections

\* _synthesize_knowledge(query, messages, function_calls): lines 201-247
synthesize_knowledge(outcome) ==
  /\ lastOp = "init"
  /\ lastOp' = "synthesize_knowledge"
  /\ synthCalls' = synthCalls + 1
  /\ lastDispatch' = [made |-> FALSE, synthesis |-> outcome]
  /\ ret' = LET text == SynthesizeKnowledge(query, messages, function_call_history, outcome)
            IN IF text = TypeErrorRaised THEN Raised
               ELSE [kind |-> "result", results |-> text]
  /\ UNCHANGED << repertoire, simulation, agentVars, pc, query, max_iterations, iteration,
                  messages, function_call_history, final_response, cached_calls,
                  pending, invocations, serviceCalls, loopExit, opLog >>

\* _create_fallback_summary(query, function_calls, tool_results) on its own:
\* lines 249-265
create_fallback_summary ==
  /\ lastOp = "init"
  /\ lastOp' = "create_fallback_summary"
  /\ lastDispatch' = NoDispatch
  /\ ret' = LET text == FallbackSummary(query, function_call_history, ToolResults(messages))
            IN IF text = TypeErrorRaised THEN Raised
               ELSE [kind |-> "result", results |-> text]
  /\ UNCHANGED << repertoire, simulation, agentVars, pc, query, max_iterations, iteration,
                  messages, function_call_history, final_response, cached_calls,
                  pending, invocations, serviceCalls, synthCalls, loopExit, opLog >>

FallbackNext ==
  \/ /\ \E outcome \in SynthOutcomes : synthesize_knowledge(outcome)
     /\ UNCHANGED << dbVars, threads, exploration, connections >>
  \/ /\ create_fallback_summary
     /\ UNCHANGED << dbVars, threads, exploration, connections >>

FallbackSpec == FallbackInit /\ [][FallbackNext]_vars

\* ------------------------------------------------------- the value explorer
\* Python values, by what _explore_object_recursively tells apart:
\*   [t |-> "none"]                  None
\*   [t |-> "prim", v |-> s]         a str, int, float or bool
\*   [t |-> "list", items |-> seq]   a list
\*   [t |-> "dict", entries |-> seq] a dict, as its <<key, value>> items in order
\*   [t |-> "obj", attrs |-> seq]    an object, as the items of its __dict__
\*   [t |-> "ref", id |-> n]         the object Heap[n], which other objects
\*                                   and itself may refer to
\*   [t |-> "other", str |-> s]      any other value, with its str()
\* A key is the tuple of its characters.
NonePy == [t |-> "none"]
Prim(v) == [t |-> "prim", v |-> v]
ListOf(items) == [t |-> "list", items |-> items]
DictOf(entries) == [t |-> "dict", entries |-> entries]
ObjOf(attrs) == [t |-> "obj", attrs |-> attrs]
Ref(id) == [t |-> "ref", id |-> id]
Other(str) == [t |-> "other", str |-> str]

\* min(5, len(obj)) and list(obj.items())[:15]
SampleSize == 5
DictLimit == 15
\* _execute_tool explores with max_depth=4
ToolDepth == 4

\* {"_truncated": "Max depth reached"}
Truncated == DictOf(<< << <<"_", "t", "r", "u", "n", "c", "a", "t", "e", "d">>,
                          Prim("Max depth reached") >> >>)

Letters ==
  <<"a", "b", "c", "d", "e", "f", "g", "h", "i", "j", "k", "l", "m", "n", "o", "p", "q">>
Key(i) == <<Letters[i]>>
PrivateKey(i) == <<"_", Letters[i]>>

\* key.startswith('_')
StartsWithUnderscore(key) == Len(key) > 0 /\ key[1] = "_"
IsPublic(item) == ~StartsWithUnderscore(item[1])

\* objects that refer to themselves and to each other
Heap ==
  << << <<Key(1), Prim("pikachu")>>, <<PrivateKey(2), Prim("hidden")>>,
        <<Key(3), Ref(1)>>, <<Key(4), ListOf(<<Ref(2), Ref(1)>>)>> >>,
     << <<Key(1), Ref(1)>>, <<Key(2), NonePy>> >> >>

\* obj.__dict__.items()
Attributes(obj) == IF obj.t = "ref" THEN Heap[obj.id] ELSE obj.attrs

\* a list of n items and a mapping of n entries that hold v first
ListAround(v, n) ==
  ListOf([i \in 1..n |-> IF i = 1 THEN v ELSE Prim(Letters[i])])
EntriesAround(v, n) ==
  [i \in 1..n |-> <<Key(i), IF i = 1 THEN v ELSE Prim(Letters[i])>>]
ObjectAround(v, n) ==
  ObjOf(<< <<PrivateKey(1), Prim("hidden")>> >> \o EntriesAround(v, n))

Leaves == {NonePy, Prim("pikachu"), Other("<obj>"), Ref(1), ListOf(<<>>)}

\* the values of level n + 1 hold the values of level n
RECURSIVE ValuesOfLevel(_)
ValuesOfLevel(n) ==
  IF n = 0 THEN Leaves
  ELSE LET inner == ValuesOfLevel(n - 1)
       IN {ListAround(v, SampleSize) : v \in inner}
            \cup {ListAround(v, SampleSize + 1) : v \in inner}
            \cup {DictOf(EntriesAround(v, DictLimit)) : v \in inner}
            \cup {DictOf(EntriesAround(v, DictLimit + 1)) : v \in inner}
            \cup {ObjectAround(v, 2) : v \in inner}
            \cup {ObjectAround(v, DictLimit + 1) : v \in inner}

ExploredValues == UNION {ValuesOfLevel(n) : n \in 0..MaxNesting}

\* current_depth > max_depth
PastLimit(current_depth, max_depth) == current_depth > max_depth

\* current_depth >= max_depth (line 118)
AtLimit(current_depth, max_depth) == current_depth >= max_depth

\* _explore_object_recursively(obj, max_depth, current_depth): lines 114-154
RECURSIVE explore_object_recursively(_, _, _)
explore_object_recursively(obj, max_depth, current_depth) ==
  IF AtLimit(current_depth, max_depth) THEN Truncated
  ELSE CASE obj.t = "none" -> NonePy
         [] obj.t = "prim" -> obj
         [] obj.t = "list" ->
              LET sample_size == IF Len(obj.items) < SampleSize
                                   THEN Len(obj.items) ELSE SampleSize
              IN ListOf([i \in 1..sample_size |->
                   explore_object_recursively(obj.items[i], max_depth, current_depth + 1)])
         [] obj.t = "dict" ->
              LET kept == IF Len(obj.entries) < DictLimit
                            THEN Len(obj.entries) ELSE DictLimit
              IN DictOf([i \in 1..kept |->
                   << obj.entries[i][1],
                      explore_object_recursively(obj.entries[i][2], max_depth,
                                                 current_depth + 1) >>])
         [] obj.t \in {"obj", "ref"} ->
              LET public == SelectSeq(Attributes(obj), IsPublic)
              IN DictOf([i \in DOMAIN public |->
                   << public[i][1],
                      explore_object_recursively(public[i][2], max_depth,
                                                 current_depth + 1) >>])
         [] obj.t = "other" -> Prim(obj.str)

ExploreInit ==
  /\ AgentInit
  /\ repertoire = KeyOrderRequests
  /\ simulation = FALSE
  /\ EmptyDatabase
  /\ utc_offset = 0
  /\ workload = NoWorkload
  /\ threads = NoThreads
  /\ connections = NoConnections
  /\ exploration \in [op : {"given"}, obj : ExploredValues, max_depth : 0..MaxDepth]

\* a call _explore_object_recursively(obj, max_depth)
explore ==
  /\ exploration.op = "given"
  /\ exploration' =
       [op |-> "explore", obj |-> exploration.obj, max_depth |-> exploration.max_depth,
        returned |-> explore_object_recursively(exploration.obj, exploration.max_depth, 0)]

\* the call of _execute_tool on the value a tool returned: line 180
explore_result ==
  /\ exploration.op = "given"
  /\ exploration.max_depth = ToolDepth
  /\ exploration' =
       [op |-> "explore_result", obj |-> exploration.obj, max_depth |-> ToolDepth,
        returned |-> explore_object_recursively(exploration.obj, ToolDepth, 0)]

ExploreNext ==
  \/ /\ explore
     /\ UNCHANGED << researchVars, dbVars, threads, connections >>
  \/ /\ explore_result
     /\ UNCHANGED << researchVars, dbVars, threads, connections >>

ExploreSpec == ExploreInit /\ [][ExploreNext]_vars

\* ================================================================ src/app.py
\* A query text is the sequence of its characters.
QueryTexts == { <<"p">>, <<" ", "P", " ">>, <<"r">> }

\* a research result list (List[Dict]) and the source URL lists handed over
ResultLists == { <<>>, <<[content |-> "pikachu is electric"]>> }
UrlLists == { NoneVal, <<>>, <<"https://example.com/research1">> }
ResourceUrls == { "https://example.com/research1" }
Contents == { <<"<", "p", ">">> }

SecondsPerHour == 3600
DefaultResearchHours == 24
DefaultResourceHours == 6
HourTicks == SecondsPerHour * TicksPerSecond

\* cache_hours arguments used; local time zones the server may run in
ResearchHours == {0, 1, DefaultResearchHours}
ResourceHours == {0, DefaultResourceHours}
UtcOffsets == {-5, 0, 1}
ClockSteps == {1, HourTicks, DefaultResearchHours * HourTicks}

\* The embedding provider, encode(text): synthetic embeddings of equal norm,
\* so that the similarity of two texts is the dot product of their vectors
\* in units of 1 / UnitNorm2.
Embeddings ==
  (<<"p">> :> <<5, 0>>) @@ (<<"r">> :> <<4, 3>>) @@ (<<"q">> :> <<4, -3>>)
    @@ (<<"s">> :> <<3, 4>>)
UnitNorm2 == 5 * 5
Encode(text) == Embeddings[text]
Similarity(u, v) == u[1] * v[1] + u[2] * v[2]

\* configured thresholds, as fractions; the default is 0.95
DefaultThreshold == [num |-> 19, den |-> 20]
Thresholds == {DefaultThreshold, [num |-> 24, den |-> 25], [num |-> 4, den |-> 5]}

\* similarity > threshold
Above(similarity, threshold) ==
  similarity * threshold.den > threshold.num * UnitNorm2

\* similarity >= threshold
AtLeast(similarity, threshold) ==
  similarity * threshold.den >= threshold.num * UnitNorm2

\* The calls the clients of one run draw from.  A run uses one workload, so
\* the runs with different workloads add up instead of multiplying.
RoundTripLoad ==
  [queries |-> {<<"p">>, <<"r">>}, results |-> ResultLists, source_urls |-> UrlLists,
   hours |-> {1, DefaultResearchHours}, resources |-> {}, steps |-> {1},
   thresholds |-> {}]
NormalizeLoad ==
  [queries |-> QueryTexts, results |-> ResultLists, source_urls |-> {NoneVal},
   hours |-> {DefaultResearchHours}, resources |-> {}, steps |-> {HourTicks},
   thresholds |-> {}]
ExpiryLoad ==
  [queries |-> {<<"p">>}, results |-> {<<>>}, source_urls |-> {NoneVal},
   hours |-> ResearchHours, resources |-> ResourceUrls, steps |-> ClockSteps,
   thresholds |-> {}]
SemanticLoad ==
  [queries |-> DOMAIN Embeddings, results |-> {<<>>}, source_urls |-> {NoneVal},
   hours |-> {0, DefaultResearchHours}, resources |-> {}, steps |-> {1},
   thresholds |-> Thresholds]
Workloads == {RoundTripLoad, NormalizeLoad, ExpiryLoad}

\* str.lower() and str.strip()
LowerChar(c) == IF c = "P" THEN "p" ELSE IF c = "R" THEN "r" ELSE c
Lower(text) == [i \in DOMAIN text |-> LowerChar(text[i])]
IsSpace(c) == c = " "

RECURSIVE LStrip(_)
LStrip(text) ==
  IF text # <<>> /\ IsSpace(Head(text)) THEN LStrip(Tail(text)) ELSE text

RECURSIVE RStrip(_)
RStrip(text) ==
  IF text # <<>> /\ IsSpace(Last(text))
    THEN RStrip(SubSeq(text, 1, Len(text) - 1))
    ELSE text

Strip(text) == RStrip(LStrip(text))

\* a hash of the text as it was typed
hash_query_verbatim(q) == <<"md5", q>>

\* hash_query(query): md5 of the lowercased, trimmed text (distinct texts are
\* taken to have distinct digests)
hash_query(q) == <<"md5", Strip(Lower(q))>>

\* json.dumps / json.loads of a list; the NULL of SQLite
JsonDumps(v) == <<"json", v>>
JsonLoads(text) == text[2]
Null == <<"NULL">>

\* CURRENT_TIMESTAMP: UTC, whole seconds ("YYYY-MM-DD HH:MM:SS")
CurrentTimestamp == (clock \div TicksPerSecond) * TicksPerSecond

\* datetime.now(): local time with its fraction of a second; written to the
\* database as "YYYY-MM-DD HH:MM:SS.ffffff", or without the fraction when
\* it is zero
DatetimeNow == clock + utc_offset * HourTicks

\* SQLite compares the two timestamps as texts.  Both have the same fixed
\* layout, and a text with a fraction sorts after the same text without it,
\* so the order of the texts is the order of the tick counts.
TextLessOrEqual(a, b) == a <= b
TextLess(a, b) == a < b
TextGreater(a, b) == a > b

\* Python truthiness of a list argument that may be None
TruthyList(l) == l # NoneVal /\ l # <<>>

NoneResult == [kind |-> "None"]

\* a SELECT on the hash alone
SelectResearchAnyAge(q) ==
  {r \in research_cache : r.query_hash = hash_query(q)}

\* the SELECT of get_cached_research (lines 156-159); query_hash is UNIQUE,
\* so fetchone() has at most one row to pick
SelectResearch(q) ==
  {r \in research_cache :
     r.query_hash = hash_query(q) /\ TextGreater(r.expires_at, CurrentTimestamp)}

\* access_count + 2
BumpTwice(n) == n + 2

\* access_count + 1 (line 164)
Bump(n) == n + 1

\* the UPDATE of get_cached_research (lines 163-166)
CountAccess(table, row) ==
  (table \ {row}) \cup {[row EXCEPT !.access_count = Bump(@)]}

\* the dict get_cached_research returns for a row (lines 169-173)
ResearchDict(row) ==
  [kind |-> "dict",
   results |-> JsonLoads(row.results),
   source_urls |-> IF row.source_urls # Null THEN JsonLoads(row.source_urls) ELSE <<>>,
   cached_at |-> row.cached_at]

\* ResearchCache.get_cached_research(query): the returned value and the table
GetCachedResearch(q) ==
  LET found == SelectResearch(q) IN
  IF found = {}
    THEN [returned |-> NoneResult, table |-> research_cache, hit |-> FALSE]
    ELSE LET result == CHOOSE r \in found : TRUE
         IN [returned |-> ResearchDict(result),
             table |-> CountAccess(research_cache, result),
             hit |-> TRUE]

\* the rows of a table in the order of their ids
RECURSIVE RowsInOrder(_)
RowsInOrder(table) ==
  IF table = {} THEN <<>>
  ELSE LET first == CHOOSE r \in table : \A x \in table : r.id <= x.id
       IN <<first>> \o RowsInOrder(table \ {first})

\* one pass over the entries that keeps the most similar one seen so far; a
\* later entry takes its place only if it is strictly more similar
RECURSIVE MostSimilar(_, _, _)
MostSimilar(entries, vector, best) ==
  IF entries = <<>> THEN best
  ELSE LET e == Head(entries)
           sim == Similarity(Encode(e.query), vector)
       IN MostSimilar(Tail(entries), vector,
            IF ~best.found \/ sim > best.similarity
              THEN [found |-> TRUE, row |-> e, similarity |-> sim]
              ELSE best)

\* the semantic strategy of lookup(query): the returned value and the table
SemanticLookup(q, threshold) ==
  LET live == {r \in research_cache : TextGreater(r.expires_at, CurrentTimestamp)}
      best == MostSimilar(RowsInOrder(live), Encode(q), [found |-> FALSE])
  IN IF best.found /\ AtLeast(best.similarity, threshold)
       THEN [returned |-> ResearchDict(best.row),
             table |-> CountAccess(research_cache, best.row),
             hit |-> TRUE, id |-> best.row.id, similarity |-> best.similarity]
       ELSE [returned |-> NoneResult, table |-> research_cache, hit |-> FALSE,
             id |-> 0,
             similarity |-> IF best.found THEN best.similarity ELSE 0]

\* a row whose expiry leaves the cache_hours out
ResearchRowNoTtl(q, results, source_urls, cache_hours) ==
  [id |-> sqlite_sequence.research_cache + 1,
   query_hash |-> hash_query(q),
   query |-> q,
   results |-> JsonDumps(results),
   source_urls |-> IF TruthyList(source_urls) THEN JsonDumps(source_urls) ELSE Null,
   cached_at |-> CurrentTimestamp,
   expires_at |-> DatetimeNow,
   access_count |-> 0]

\* the row written by cache_research (lines 179-189); id, cached_at and
\* access_count are filled in by the schema (lines 40, 45, 47)
ResearchRow(q, results, source_urls, cache_hours) ==
  [id |-> sqlite_sequence.research_cache + 1,
   query_hash |-> hash_query(q),
   query |-> q,
   results |-> JsonDumps(results),
   source_urls |-> IF TruthyList(source_urls) THEN JsonDumps(source_urls) ELSE Null,
   cached_at |-> CurrentTimestamp,
   expires_at |-> DatetimeNow + cache_hours * HourTicks,
   access_count |-> 0]

\* an INSERT that keeps the row in conflict
InsertBeside(table, key, row) == table \cup {row}

\* INSERT OR REPLACE on the UNIQUE column `key`: the row in conflict is deleted
InsertOrReplace(table, key, row) ==
  {r \in table : r[key] # row[key]} \cup {row}

\* ResearchCache.cache_research(query, results, source_urls, cache_hours)
CacheResearch(q, results, source_urls, cache_hours) ==
  InsertOrReplace(research_cache, "query_hash",
                  ResearchRow(q, results, source_urls, cache_hours))

\* rows a DELETE ... WHERE expires_at < CURRENT_TIMESTAMP leaves (lines 196-197)
DeleteExpired(table) ==
  {r \in table : ~TextLess(r.expires_at, CurrentTimestamp)}

\* ResourceCache.get_cached_resource(url)
GetCachedResource(url) ==
  LET found == {r \in resource_cache :
                  r.url = url /\ TextGreater(r.expires_at, CurrentTimestamp)}
  IN IF found = {} THEN NoneResult
     ELSE LET result == CHOOSE r \in found : TRUE
          IN [kind |-> "dict", content |-> result.content,
              content_type |-> result.content_type, cached_at |-> result.cached_at]

\* the row written by cache_resource (lines 223-231)
ResourceRow(url, content, content_type, cache_hours) ==
  [id |-> sqlite_sequence.resource_cache + 1,
   url |-> url,
   content |-> content,
   content_type |-> content_type,
   cached_at |-> CurrentTimestamp,
   expires_at |-> DatetimeNow + cache_hours * HourTicks,
   size |-> Len(content)]

\* DeepResearchBot._perform_research(query): the mock result
PerformResearch(q) ==
  [results |-> << [title |-> <<"Research Result for: ", q>>,
                   content |-> <<"This is simulated research content for the query: ", q>>,
                   relevance |-> "0.95"] >>,
   source_urls |-> <<"https://example.com/research1", "https://example.com/research2">>]

\* DeepResearchBot._generate_answer(research_results)
GenerateAnswer(research_results) ==
  IF research_results = <<>>
    THEN <<"text", "I couldn't find relevant information for your query.">>
    ELSE <<"Based on my research: ",
           [i \in 1..Min(3, Len(research_results)) |-> research_results[i].content]>>

\* observation: the run of consecutive get_cached_research hits on one row
\* that a lookup of q continues or starts: the row's id, its access_count
\* before the run, and the number of hits of the run with this one
HitStreak(q) ==
  LET found == SelectResearch(q) IN
  IF found = {} THEN [id |-> 0, base |-> 0, hits |-> 0]
  ELSE LET result == CHOOSE r \in found : TRUE IN
       IF lastCall.op = "get_cached_research" /\ lastCall.streak.id = result.id
         THEN [lastCall.streak EXCEPT !.hits = lastCall.streak.hits + 1]
         ELSE [id |-> result.id, base |-> result.access_count, hits |-> 1]

\* observation: the ids of the rows a lookup of q returns
ReturnedIds(q) == {r.id : r \in SelectResearch(q)}

\* observation: the log of lookups per stored row, after a step that leaves
\* the rows `table` and returned the rows with the ids `returned`
LogHits(log, table, returned) ==
  [id \in {r.id : r \in table} |->
     (IF id \in DOMAIN log THEN log[id] ELSE 0) + (IF id \in returned THEN 1 ELSE 0)]

\* SUM(column) and COUNT(*) of SQLite: the sum over no rows is NULL
RECURSIVE SumOf(_, _)
SumOf(rows, column) ==
  IF rows = {} THEN 0
  ELSE LET r == CHOOSE x \in rows : TRUE
       IN r[column] + SumOf(rows \ {r}, column)

\* COUNT(*) in the place of SUM(column)
SqlCount(rows, column) == [null |-> FALSE, value |-> Cardinality(rows)]

SqlSum(rows, column) ==
  IF rows = {} THEN [null |-> TRUE] ELSE [null |-> FALSE, value |-> SumOf(rows, column)]

\* `value or 0` on a fetched column (None for NULL)
OrZero(fetched) == IF fetched.null THEN 0 ELSE fetched.value

\* what the cache_stats route returns (lines 357-379)
CacheStats ==
  [research_cache |->
     [entries |-> Cardinality(research_cache),
      total_hits |-> OrZero(SqlSum(research_cache, "access_count"))],
   resource_cache |->
     [entries |-> Cardinality(resource_cache),
      total_size |-> OrZero(SqlSum(resource_cache, "size"))]]

\* rows inserted so far
Inserted == sqlite_sequence.research_cache + sqlite_sequence.resource_cache

\* ---------------------------------------------------------------- actions
\* ResearchCache.get_cached_research(query): lines 150-174
get_cached_research(q) ==
  LET c == GetCachedResearch(q) IN
  /\ c.hit => \A r \in SelectResearch(q) : r.access_count < MaxHits
  /\ research_cache' = c.table
  /\ lastCall' = [op |-> "get_cached_research", query |-> q,
                  returned |-> c.returned, hit |-> c.hit,
                  commits |-> IF c.hit THEN 1 ELSE 0,
                  streak |-> HitStreak(q)]
  /\ hitLog' = LogHits(hitLog, research_cache', ReturnedIds(q))
  /\ UNCHANGED << resource_cache, sqlite_sequence, clock, utc_offset, workload, advances >>

\* ResearchCache.cache_research(...): lines 176-190
cache_research(q, results, source_urls, cache_hours) ==
  /\ Inserted < MaxStores
  /\ research_cache' = CacheResearch(q, results, source_urls, cache_hours)
  /\ sqlite_sequence' =
       [sqlite_sequence EXCEPT !.research_cache = sqlite_sequence.research_cache + 1]
  /\ lastCall' = [op |-> "cache_research", query |-> q, results |-> results,
                  source_urls |-> source_urls, cache_hours |-> cache_hours,
                  commits |-> 1,
                  replaced |-> {r \in research_cache : r.query_hash = hash_query(q)}]
  /\ hitLog' = LogHits(hitLog, research_cache', {})
  /\ UNCHANGED << resource_cache, clock, utc_offset, workload, advances >>

\* ResearchCache.cleanup_expired(): lines 192-198
cleanup_expired ==
  /\ research_cache' = DeleteExpired(research_cache)
  /\ resource_cache' = DeleteExpired(resource_cache)
  /\ lastCall' = [op |-> "cleanup_expired", commits |-> 1,
                  deleted |-> [research_cache |->
                                 Cardinality(research_cache \ DeleteExpired(research_cache)),
                               resource_cache |->
                                 Cardinality(resource_cache \ DeleteExpired(resource_cache))]]
  /\ hitLog' = LogHits(hitLog, research_cache', {})
  /\ UNCHANGED << sqlite_sequence, clock, utc_offset, workload, advances >>

\* ResourceCache.get_cached_resource(url): lines 203-217
get_cached_resource(url) ==
  /\ lastCall' = [op |-> "get_cached_resource", url |-> url,
                  returned |-> GetCachedResource(url), commits |-> 0]
  /\ UNCHANGED << research_cache, resource_cache, sqlite_sequence, clock,
                  utc_offset, workload, advances, hitLog >>

\* ResourceCache.cache_resource(url, content, content_type, cache_hours): lines 219-232
cache_resource(url, content, cache_hours) ==
  /\ Inserted < MaxStores
  /\ resource_cache' =
       InsertOrReplace(resource_cache, "url",
                       ResourceRow(url, content, "text/html", cache_hours))
  /\ sqlite_sequence' =
       [sqlite_sequence EXCEPT !.resource_cache = sqlite_sequence.resource_cache + 1]
  /\ lastCall' = [op |-> "cache_resource", url |-> url, cache_hours |-> cache_hours,
                  commits |-> 1]
  /\ UNCHANGED << research_cache, clock, utc_offset, workload, advances, hitLog >>

\* DeepResearchBot.conduct_research(query): lines 241-266
conduct_research(q) ==
  LET c == GetCachedResearch(q) IN
  /\ UNCHANGED << resource_cache, clock, utc_offset, workload, advances >>
  /\ IF c.hit
       THEN /\ \A r \in SelectResearch(q) : r.access_count < MaxHits
            /\ research_cache' = c.table
            /\ UNCHANGED sqlite_sequence
            /\ lastCall' =
                 [op |-> "conduct_research", query |-> q,
                  returned |-> [answer |-> GenerateAnswer(c.returned.results),
                                sources |-> c.returned.source_urls,
                                cached |-> TRUE],
                  performed |-> 0, stored |-> 0]
       ELSE LET research_results == PerformResearch(q) IN
            /\ Inserted < MaxStores
            /\ research_cache' =
                 CacheResearch(q, research_results.results,
                               research_results.source_urls, DefaultResearchHours)
            /\ sqlite_sequence' =
                 [sqlite_sequence EXCEPT
                    !.research_cache = sqlite_sequence.research_cache + 1]
            /\ lastCall' =
                 [op |-> "conduct_research", query |-> q,
                  returned |-> [answer |-> GenerateAnswer(research_results.results),
                                sources |-> research_results.source_urls,
                                cached |-> FALSE],
                  performed |-> 1, stored |-> 1]
  /\ hitLog' = LogHits(hitLog, research_cache', ReturnedIds(q))

\* lookup(query) under the semantic strategy with the configured threshold
semantic_lookup(q, threshold) ==
  LET c == SemanticLookup(q, threshold) IN
  /\ c.hit => \A r \in research_cache : r.id = c.id => r.access_count < MaxHits
  /\ research_cache' = c.table
  /\ lastCall' = [op |-> "semantic_lookup", query |-> q, threshold |-> threshold,
                  returned |-> c.returned, hit |-> c.hit, id |-> c.id,
                  similarity |-> c.similarity,
                  commits |-> IF c.hit THEN 1 ELSE 0]
  /\ hitLog' = LogHits(hitLog, research_cache', IF c.hit THEN {c.id} ELSE {})
  /\ UNCHANGED << resource_cache, sqlite_sequence, clock, utc_offset, workload, advances >>

\* GET /api/cache/stats: lines 357-379
cache_stats ==
  /\ lastCall' = [op |-> "cache_stats", returned |-> CacheStats, commits |-> 0]
  /\ UNCHANGED << research_cache, resource_cache, sqlite_sequence, clock,
                  utc_offset, workload, advances, hitLog >>

\* the wall clock moves on
AdvanceClock(d) ==
  /\ advances < MaxAdvances
  /\ clock' = clock + d
  /\ advances' = advances + 1
  /\ lastCall' = [op |-> "advance"]
  /\ UNCHANGED << research_cache, resource_cache, sqlite_sequence, utc_offset,
                  workload, hitLog >>

\* the request handlers run one at a time on a fresh database
CacheInit ==
  /\ AgentInit
  /\ repertoire = KeyOrderRequests
  /\ ~simulation
  /\ EmptyDatabase
  /\ utc_offset \in UtcOffsets
  /\ workload \in Workloads
  /\ threads = NoThreads
  /\ exploration = NoExploration
  /\ connections = NoConnections

CacheNext ==
  \/ /\ \E q \in workload.queries : get_cached_research(q)
     /\ UNCHANGED << researchVars, threads, exploration, connections >>
  \/ /\ \E q \in workload.queries, results \in workload.results,
          source_urls \in workload.source_urls, cache_hours \in workload.hours :
          cache_research(q, results, source_urls, cache_hours)
     /\ UNCHANGED << researchVars, threads, exploration, connections >>
  \/ /\ cleanup_expired
     /\ UNCHANGED << researchVars, threads, exploration, connections >>
  \/ /\ \E url \in workload.resources : get_cached_resource(url)
     /\ UNCHANGED << researchVars, threads, exploration, connections >>
  \/ /\ \E url \in workload.resources, content \in Contents,
          cache_hours \in ResourceHours :
          cache_resource(url, content, cache_hours)
     /\ UNCHANGED << researchVars, threads, exploration, connections >>
  \/ /\ \E q \in workload.queries : conduct_research(q)
     /\ UNCHANGED << researchVars, threads, exploration, connections >>
  \/ /\ cache_stats
     /\ UNCHANGED << researchVars, threads, exploration, connections >>
  \/ /\ \E d \in workload.steps : AdvanceClock(d)
     /\ UNCHANGED << researchVars, threads, exploration, connections >>

CacheSpec == CacheInit /\ [][CacheNext]_vars

\* The research cache used through its semantic strategy.
SemanticInit ==
  /\ AgentInit
  /\ repertoire = KeyOrderRequests
  /\ ~simulation
  /\ EmptyDatabase
  /\ utc_offset \in UtcOffsets
  /\ workload = SemanticLoad
  /\ threads = NoThreads
  /\ exploration = NoExploration
  /\ connections = NoConnections

SemanticNext ==
  \/ /\ \E q \in workload.queries, threshold \in workload.thresholds :
          semantic_lookup(q, threshold)
     /\ UNCHANGED << researchVars, threads, exploration, connections >>
  \/ /\ \E q \in workload.queries, results \in workload.results,
          source_urls \in workload.source_urls, cache_hours \in workload.hours :
          cache_research(q, results, source_urls, cache_hours)
     /\ UNCHANGED << researchVars, threads, exploration, connections >>
  \/ /\ cleanup_expired
     /\ UNCHANGED << researchVars, threads, exploration, connections >>
  \/ /\ \E d \in workload.steps : AdvanceClock(d)
     /\ UNCHANGED << researchVars, threads, exploration, connections >>

SemanticSpec == SemanticInit /\ [][SemanticNext]_vars

\* ------------------------------------------------------ concurrent requests
\* Requests served at the same time: each has its own connection (get_db,
\* lines 66-71) and runs the statements of a ResearchCache method one by
\* one; a statement, and the commit that follows a write, is atomic.
ConcurrentLoad ==
  [queries |-> {<<"p">>, <<" ", "P", " ">>},
   results |-> ResultLists, source_urls |-> {NoneVal},
   hours |-> {0, DefaultResearchHours}, resources |-> {}, steps |-> {1},
   thresholds |-> {}]

\* UPDATE research_cache SET access_count = access_count + 1 WHERE id = ?
UpdateAccessCount(table, id) ==
  {IF r.id = id THEN [r EXCEPT !.access_count = Bump(@)] ELSE r : r \in table}

\* get_cached_research, lines 152-159: the SELECT and fetchone(); a miss
\* returns None at once (line 174)
SelectStatement(c, q) ==
  /\ connections[c].pc = "idle"
  /\ LET found == SelectResearch(q) IN
     IF found = {}
       THEN /\ lastCall' = [op |-> "get_cached_research", connection |-> c, query |-> q,
                            returned |-> NoneResult, hit |-> FALSE, commits |-> 0]
            /\ UNCHANGED connections
       ELSE /\ connections' =
                 [connections EXCEPT ![c] =
                    [pc |-> "selected", query |-> q,
                     result |-> CHOOSE r \in found : TRUE]]
            /\ lastCall' = [op |-> "select", connection |-> c, query |-> q]
  /\ UNCHANGED << research_cache, resource_cache, sqlite_sequence, clock, utc_offset,
                  workload, advances, hitLog >>

\* get_cached_research, lines 161-173: the UPDATE, the commit and the return
UpdateStatement(c) ==
  /\ connections[c].pc = "selected"
  /\ \A r \in research_cache : r.access_count < MaxHits
  /\ research_cache' = UpdateAccessCount(research_cache, connections[c].result.id)
  /\ connections' = [connections EXCEPT ![c] = IdleConnection]
  /\ lastCall' = [op |-> "get_cached_research", connection |-> c,
                  query |-> connections[c].query,
                  returned |-> ResearchDict(connections[c].result), hit |-> TRUE,
                  commits |-> 1]
  /\ hitLog' = LogHits(hitLog, research_cache', {connections[c].result.id})
  /\ UNCHANGED << resource_cache, sqlite_sequence, clock, utc_offset, workload, advances >>

ConcurrentInit ==
  /\ AgentInit
  /\ repertoire = KeyOrderRequests
  /\ simulation = FALSE
  /\ EmptyDatabase
  /\ utc_offset = 0
  /\ workload = ConcurrentLoad
  /\ threads = NoThreads
  /\ exploration = NoExploration
  /\ connections = NoConnections

ConcurrentNext ==
  \/ /\ \E c \in Connections, q \in workload.queries : SelectStatement(c, q)
     /\ UNCHANGED << researchVars, threads, exploration >>
  \/ /\ \E c \in Connections : UpdateStatement(c)
     /\ UNCHANGED << researchVars, threads, exploration >>
  \/ /\ \E c \in Connections, q \in workload.queries, results \in workload.results,
          source_urls \in workload.source_urls, cache_hours \in workload.hours :
          /\ connections[c].pc = "idle"
          /\ cache_research(q, results, source_urls, cache_hours)
     /\ UNCHANGED << researchVars, threads, exploration, connections >>
  \/ /\ \E c \in Connections : connections[c].pc = "idle" /\ cleanup_expired
     /\ UNCHANGED << researchVars, threads, exploration, connections >>
  \/ /\ \E d \in workload.steps : AdvanceClock(d)
     /\ UNCHANGED << researchVars, threads, exploration, connections >>

ConcurrentSpec == ConcurrentInit /\ [][ConcurrentNext]_vars


\* ================================================================ threads
\* research() invocations running in threads on one agent: the statements of
\* research() and _execute_tool that read or write self.function_cache and
\* self.current_session_calls, one statement per step.  The agent takes no
\* lock.
sharedVars == << function_cache, current_session_calls, opLog >>
frameVars ==
  << repertoire, simulation, pc, query, max_iterations, iteration, messages,
     function_call_history, final_response, cached_calls, pending, ret,
     invocations, serviceCalls, synthCalls, loopExit, lastDispatch, lastOp >>

\* the text of the session branch (line 167)
CachedText(cache, cache_key) ==
  <<"cached", IF cache_key \in DOMAIN cache THEN cache[cache_key]
              ELSE <<"text", "Result not found in cache">>>>

\* line 272: self.current_session_calls.clear()
StartResearch(t) ==
  /\ threads[t].pc = "idle"
  /\ threads[t].runs < MaxInvocations
  /\ current_session_calls' = ResetSession(current_session_calls)
  /\ threads' = [threads EXCEPT ![t] =
       [IdleThread EXCEPT !.pc = "loop", !.runs = threads[t].runs + 1,
                          !.calls = threads[t].calls]]
  /\ UNCHANGED << function_cache, opLog >>

\* lines 337-345 and 159: the next tool call of the loop enters _execute_tool
BeginCall(t, tool_name, arguments) ==
  /\ threads[t].pc = "loop"
  /\ threads[t].calls < MaxToolCalls
  /\ threads' = [threads EXCEPT ![t] =
       [@ EXCEPT !.pc = "check_cache", !.calls = @ + 1, !.tool = tool_name,
                 !.arguments = arguments,
                 !.cache_key = CacheKey(tool_name, arguments),
                 !.text = NoneVal, !.path = "none"]]
  /\ UNCHANGED sharedVars

\* lines 162-163
CheckCache(t) ==
  /\ threads[t].pc = "check_cache"
  /\ threads' = [threads EXCEPT ![t] =
       IF threads[t].cache_key \in DOMAIN function_cache
         THEN [@ EXCEPT !.pc = "loop", !.path = "durable",
                        !.text = function_cache[threads[t].cache_key]]
         ELSE [@ EXCEPT !.pc = "check_session"]]
  /\ UNCHANGED sharedVars

\* lines 166-167
CheckSession(t) ==
  /\ threads[t].pc = "check_session"
  /\ threads' = [threads EXCEPT ![t] =
       IF threads[t].cache_key \in current_session_calls
         THEN [@ EXCEPT !.pc = "loop", !.path = "session",
                        !.text = CachedText(function_cache, threads[t].cache_key)]
         ELSE [@ EXCEPT !.pc = "invoke"]]
  /\ UNCHANGED sharedVars

\* lines 170-183 (or 189-193 when the operation raises): the operation runs
InvokeTool(t, outcome) ==
  /\ threads[t].pc = "invoke"
  /\ LET text == IF outcome[1] = "value" THEN <<"json", outcome[2]>>
                 ELSE ErrorMsg(threads[t].tool, threads[t].arguments, outcome[2])
         k == DKey(threads[t].tool, threads[t].arguments)
         old == IF k \in DOMAIN opLog THEN opLog[k] ELSE <<>>
     IN /\ threads' = [threads EXCEPT ![t] =
             [@ EXCEPT !.pc = "write_cache", !.text = text,
                       !.path = IF outcome[1] = "value" THEN "fresh" ELSE "error"]]
        /\ opLog' = (k :> Append(old, [outcome |-> outcome, text |-> text])) @@ opLog
  /\ UNCHANGED << function_cache, current_session_calls >>

\* line 184 (or 196)
WriteCache(t) ==
  /\ threads[t].pc = "write_cache"
  /\ function_cache' =
       IF threads[t].path = "fresh"
         THEN CacheResult(function_cache, threads[t].cache_key, threads[t].text)
         ELSE CacheError(function_cache, threads[t].cache_key, threads[t].text)
  /\ threads' = [threads EXCEPT ![t] = [@ EXCEPT !.pc = "add_session"]]
  /\ UNCHANGED << current_session_calls, opLog >>

\* line 185 (or 197), and the return to the loop
AddSession(t) ==
  /\ threads[t].pc = "add_session"
  /\ current_session_calls' = current_session_calls \cup {threads[t].cache_key}
  /\ threads' = [threads EXCEPT ![t] =
       [@ EXCEPT !.pc = "loop", !.recorded = @ \cup {threads[t].cache_key}]]
  /\ UNCHANGED << function_cache, opLog >>

\* lines 366-395: research() returns
EndResearch(t) ==
  /\ threads[t].pc = "loop"
  /\ threads' = [threads EXCEPT ![t] =
       [IdleThread EXCEPT !.runs = threads[t].runs, !.calls = threads[t].calls]]
  /\ UNCHANGED sharedVars

ThreadInit ==
  /\ AgentInit
  /\ repertoire = KeyOrderRequests
  /\ ~simulation
  /\ EmptyDatabase
  /\ utc_offset = 0
  /\ workload = NoWorkload
  /\ threads = NoThreads
  /\ exploration = NoExploration
  /\ connections = NoConnections

ThreadNext ==
  \/ /\ \E t \in Threads : StartResearch(t)
     /\ UNCHANGED << frameVars, dbVars, exploration, connections >>
  \/ /\ \E t \in Threads, c \in DirectCalls(repertoire) :
          BeginCall(t, c.name, c.arguments.dict)
     /\ UNCHANGED << frameVars, dbVars, exploration, connections >>
  \/ /\ \E t \in Threads : CheckCache(t)
     /\ UNCHANGED << frameVars, dbVars, exploration, connections >>
  \/ /\ \E t \in Threads : CheckSession(t)
     /\ UNCHANGED << frameVars, dbVars, exploration, connections >>
  \/ /\ \E t \in Threads, outcome \in OpOutcomes : InvokeTool(t, outcome)
     /\ UNCHANGED << frameVars, dbVars, exploration, connections >>
  \/ /\ \E t \in Threads : WriteCache(t)
     /\ UNCHANGED << frameVars, dbVars, exploration, connections >>
  \/ /\ \E t \in Threads : AddSession(t)
     /\ UNCHANGED << frameVars, dbVars, exploration, connections >>
  \/ /\ \E t \in Threads : EndResearch(t)
     /\ UNCHANGED << frameVars, dbVars, exploration, connections >>

ThreadSpec == ThreadInit /\ [][ThreadNext]_vars

\* ---------------------------------------------------------------- observations
IsAssistantMsg(m) == m.role = "assistant"
Responses == SelectSeq(messages, IsAssistantMsg)
NumResponses == Len(Responses)
NumToolResponses ==
  Cardinality({i \in DOMAIN Responses : Responses[i].tool_calls # <<>>})

\* a model response with no tool-call requests was obtained
GotFinal == \E i \in DOMAIN Responses : Responses[i].tool_calls = <<>>

\* a loop call to the reasoning service yielded no response
TransportFailed == serviceCalls > NumResponses

RECURSIVE Concat(_)
Concat(ss) == IF ss = <<>> THEN <<>> ELSE Head(ss) \o Concat(Tail(ss))

\* every tool call requested in this invocation, in request order
RequestedCalls == Concat([i \in DOMAIN Responses |-> Responses[i].tool_calls])

AllArgumentsDecode ==
  \A i \in DOMAIN RequestedCalls : RequestedCalls[i].arguments.ok

WithoutWrappers(pairs) == {p \in pairs : p[1] \notin {"args", "kwargs"}}

ReturnedFromLoop == lastOp = "return" /\ ~simulation

\* ---------------------------------------------------------------- claims

\* C1: research() returns success=true whenever a tool call was recorded or a
\* final answer (a response without tool-call requests) was obtained, and
\* success=false only with no final answer and an empty call history.
C1_Claim ==
  (lastOp = "return" /\ ret.kind = "result") =>
     /\ (function_call_history # <<>> \/ GotFinal) => ret.success
     /\ ~ret.success => (~GotFinal /\ function_call_history = <<>>)

\* C2: every research() invocation ends in a returned answer object, never
\* in an exception that escapes to the caller.
C2_Claim == lastOp \in {"return", "research"} => ret.kind # "raised"

C4_Claim ==
  (ReturnedFromLoop /\ NumResponses >= 2 /\ NumToolResponses = NumResponses - 1
     /\ Last(Responses).tool_calls = <<>>) =>
     /\ ret.kind = "result"
     /\ ret.results = Last(Responses).content
     /\ ret.success
     /\ synthCalls = 0
     /\ serviceCalls = NumResponses
     /\ Len(ret.reasoning) = Len(RequestedCalls)
     /\ \A i \in DOMAIN RequestedCalls :
          /\ ret.reasoning[i][1] = RequestedCalls[i].name
          /\ ArgSet(ret.reasoning[i][2]) =
               WithoutWrappers(ArgSet(RequestedCalls[i].arguments.dict))

\* C5: a failed reasoning-service call stops the loop at once and keeps the
\* history: non-empty history -> Synthesizer and success=true; empty history
\* -> the "no data collected" message, success=false, no Synthesizer call.
C5_Thm ==
  (~simulation /\ TransportFailed) =>
     /\ pc \in {"finish", "idle"}
     /\ serviceCalls = NumResponses + 1
     /\ Len(SelectSeq(messages, IsToolMsg)) = Len(function_call_history)
     /\ lastOp = "return" =>
          /\ ret.kind = "result"
          /\ ret.reasoning = function_call_history
          /\ function_call_history # <<>> => (synthCalls = 1 /\ ret.success)
          /\ function_call_history = <<>> =>
               (ret.results = <<"nodata", query>> /\ ~ret.success /\ synthCalls = 0)

C5_Witness ==
  /\ lastOp = "return" /\ TransportFailed
  /\ function_call_history # <<>> /\ synthCalls = 1 /\ ret.success

\* the (tool, argument set) of the _execute_tool call of the last step
LastDKey == DKey(lastDispatch.tool, lastDispatch.arguments)

\* C6: without clear_cache in between, the operation runs at most once per
\* (tool, canonical arguments); a later dispatch of the same pair, whatever
\* the order of its argument keys, is a durable-cache hit that returns the
\* text of the first dispatch and does not run the operation.
C6_Thm ==
  /\ \A k \in DOMAIN opLog : Len(opLog[k]) <= 1
  /\ (lastDispatch.made /\ ~lastDispatch.invoked /\ LastDKey \in DOMAIN opLog) =>
       /\ lastDispatch.path = "durable"
       /\ lastDispatch.result = opLog[LastDKey][1].text

C6_Witness ==
  /\ lastDispatch.made /\ lastDispatch.inResearch
  /\ lastDispatch.path = "durable"
  /\ \E i \in 1..(Len(function_call_history) - 1) :
       /\ function_call_history[i][1] = lastDispatch.tool
       /\ ArgSet(function_call_history[i][2]) = ArgSet(lastDispatch.arguments)
       /\ function_call_history[i][2] # lastDispatch.arguments

\* C7: when the operation raises, _execute_tool returns an error string,
\* stores it in the durable cache under the call's key, later dispatches of
\* the key return it without running the operation, and the research loop
\* goes on.
C7_Thm ==
  lastDispatch.made =>
    /\ (lastDispatch.invoked /\ Last(opLog[LastDKey]).outcome[1] = "raise") =>
         /\ lastDispatch.result[1] = "error"
         /\ lastDispatch.key \in DOMAIN function_cache
         /\ function_cache[lastDispatch.key] = lastDispatch.result
         /\ lastDispatch.inResearch =>
              (pc \in {"tools", "await"} \/ (pc = "finish" /\ loopExit = "exhausted"))
    /\ (~lastDispatch.invoked /\ LastDKey \in DOMAIN opLog
          /\ opLog[LastDKey][1].outcome[1] = "raise") =>
         /\ lastDispatch.result[1] = "error"
         /\ lastDispatch.result = opLog[LastDKey][1].text

C7_Witness ==
  /\ lastDispatch.made /\ lastDispatch.inResearch /\ ~lastDispatch.invoked
  /\ lastDispatch.result[1] = "error"
  /\ pc = "await"

\* the call dispatched by the last step was already requested earlier in this
\* research invocation
RepeatedInInvocation ==
  /\ lastDispatch.made /\ lastDispatch.inResearch
  /\ \E i \in 1..(Len(function_call_history) - 1) :
       /\ function_call_history[i][1] = lastDispatch.tool
       /\ ArgSet(function_call_history[i][2]) = ArgSet(lastDispatch.arguments)

\* C8: a (tool, arguments) call requested a second time within one research
\* invocation gets a tool result that carries the "[CACHED]" marker, and is
\* counted in cached_calls.
C8_Claim ==
  RepeatedInInvocation =>
    /\ StartsWithCached(lastDispatch.result)
    /\ StartsWithCached(Last(messages).content)
    /\ cached_calls >= 1

\* C9: starting a research() invocation empties the session call set and
\* leaves the durable cache as it is, as does finishing one; only clear_cache
\* removes or changes a durable-cache entry.
C9_Thm ==
  [][ /\ lastOp' = "research" =>
           (current_session_calls' = {} /\ function_cache' = function_cache)
      /\ lastOp' = "return" => function_cache' = function_cache
      /\ lastOp' # "clear_cache" =>
           \A k \in DOMAIN function_cache :
              k \in DOMAIN function_cache' /\ function_cache'[k] = function_cache[k]
    ]_vars

C9_Witness ==
  /\ invocations = 2 /\ lastOp = "research" /\ ~simulation
  /\ current_session_calls = {}
  /\ function_cache # EmptyMap

\* C10: a request whose arguments carry a wrapper key ("args", "kwargs") is
\* dispatched without it: the operation, the cache key and the reasoning
\* entry use the arguments without wrapper keys, so requests that differ only
\* by a wrapper key share one durable-cache entry.
C10_Thm ==
  /\ (lastDispatch.made /\ lastDispatch.inResearch) =>
       LET want == WithoutWrappers(ArgSet(lastDispatch.raw)) IN
       /\ ArgSet(lastDispatch.arguments) = want
       /\ Len(lastDispatch.arguments) = Cardinality(want)
       /\ lastDispatch.key[1] = lastDispatch.tool
       /\ ArgSet(lastDispatch.key[2]) = want
       /\ Last(function_call_history) = <<lastDispatch.tool, lastDispatch.arguments>>
       /\ lastDispatch.invoked => Len(opLog[<<lastDispatch.tool, want>>]) = 1
  /\ \A k1, k2 \in DOMAIN function_cache :
       (k1[1] = k2[1] /\
        WithoutWrappers(ArgSet(k1[2])) = WithoutWrappers(ArgSet(k2[2]))) => k1 = k2

C10_Witness ==
  /\ lastDispatch.made /\ lastDispatch.inResearch
  /\ ArgSet(lastDispatch.raw) # ArgSet(lastDispatch.arguments)
  /\ lastDispatch.path = "durable"
  /\ \E i \in DOMAIN RequestedCalls :
       /\ RequestedCalls[i].arguments.ok
       /\ RequestedCalls[i].arguments.dict = lastDispatch.arguments

\* the next tool call of the response names a tool that is not registered
UnknownToolNext ==
  pc = "tools" /\ pending # <<>> /\ Head(pending).arguments.ok
    /\ Head(pending).name \notin tool_functions

\* ---------------------------------------------------------------- C11
\* C11: a dispatch of a tool name that is not in the registry returns the
\* text "Tool <name> not found", runs no operation and changes neither the
\* function cache nor the session set.  Inside research() the request is
\* appended to the reasoning history, its text becomes the tool message, and
\* the loop goes on: the remaining tool calls of the response are still
\* pending, and after the last one the next iteration starts unless the
\* budget is used up.
C11_Thm ==
  [][
    /\ UnknownToolNext /\ lastOp' = "dispatch"
         => LET name == Head(pending).name
                arguments == StripRogue(Head(pending).arguments.dict)
            IN /\ lastDispatch'.result = <<"toolnotfound", name>>
               /\ ~lastDispatch'.invoked
               /\ opLog' = opLog
               /\ UNCHANGED agentVars
               /\ function_call_history' =
                    Append(function_call_history, <<name, arguments>>)
               /\ Last(messages') =
                    [role |-> "tool", content |-> <<"toolnotfound", name>>,
                     name |-> name, tool_call_id |-> Len(function_call_history')]
               /\ pending' = Tail(pending)
               /\ loopExit' # "decode" /\ loopExit' # "transport"
               /\ Tail(pending) # <<>> => pc' = "tools" /\ iteration' = iteration
               /\ Tail(pending) = <<>> /\ iteration + 1 < max_iterations
                    => pc' = "await" /\ iteration' = iteration + 1
               /\ Tail(pending) = <<>> /\ iteration + 1 >= max_iterations
                    => pc' = "finish" /\ loopExit' = "exhausted"
    /\ lastOp' = "execute_tool" /\ lastDispatch'.tool \notin tool_functions
         => /\ lastDispatch'.result = <<"toolnotfound", lastDispatch'.tool>>
            /\ ~lastDispatch'.invoked
            /\ opLog' = opLog
            /\ UNCHANGED agentVars
  ]_vars

\* an unknown tool was dispatched as the first of two tool calls of a
\* response, and the second one is still to be dispatched
C11_Witness ==
  /\ lastOp = "dispatch" /\ lastDispatch.made
  /\ lastDispatch.tool \notin tool_functions
  /\ lastDispatch.result = <<"toolnotfound", lastDispatch.tool>>
  /\ pc = "tools" /\ pending # <<>>
  /\ Last(function_call_history)[1] = lastDispatch.tool

\* ---------------------------------------------------------------- research cache: observations
\* the rows stored under a query equal to q after lowercasing and trimming
EntriesFor(q) ==
  {r \in research_cache : Strip(Lower(r.query)) = Strip(Lower(q))}

\* the rows whose expires_at lies after the current time
Unexpired(rows) == {r \in rows : r.expires_at > CurrentTimestamp}

\* the source URLs a row holds
UrlsOf(r) == IF r.source_urls = Null THEN <<>> ELSE JsonLoads(r.source_urls)

\* ---------------------------------------------------------------- C12
\* C12: every conduct_research(q) call first looks q up.  If an unexpired
\* entry exists for the normalized query, the call returns cached = TRUE with
\* the answer of that entry, runs _perform_research zero times and stores
\* nothing (only the entry's access_count moves).  Otherwise it runs
\* _perform_research once and stores its result, replacing any entry of the
\* normalized query, and that new entry is unexpired, so a following call
\* with the same normalized query is of the first kind and returns the
\* answer generated from the stored results.
C12_Thm ==
  [][ lastCall'.op = "conduct_research" =>
        LET q == lastCall'.query
            out == lastCall'.returned
            live == Unexpired(EntriesFor(q))
        IN IF live # {}
             THEN /\ out.cached
                  /\ lastCall'.performed = 0 /\ lastCall'.stored = 0
                  /\ sqlite_sequence' = sqlite_sequence
                  /\ \E r \in live :
                       /\ live = {r}
                       /\ out.answer = GenerateAnswer(JsonLoads(r.results))
                       /\ out.sources = UrlsOf(r)
                       /\ research_cache' =
                            (research_cache \ {r})
                              \cup {[r EXCEPT !.access_count = r.access_count + 1]}
             ELSE /\ ~out.cached
                  /\ lastCall'.performed = 1 /\ lastCall'.stored = 1
                  /\ out.answer = GenerateAnswer(PerformResearch(q).results)
                  /\ out.sources = PerformResearch(q).source_urls
                  /\ \E r \in research_cache' :
                       /\ research_cache' = (research_cache \ EntriesFor(q)) \cup {r}
                       /\ r.query = q
                       /\ JsonLoads(r.results) = PerformResearch(q).results
                       /\ UrlsOf(r) = PerformResearch(q).source_urls
                       /\ r.expires_at > CurrentTimestamp
    ]_vars

\* a call served from the entry that an earlier call with another spelling
\* of the query stored, after the clock has moved
C12_Witness ==
  /\ lastCall.op = "conduct_research" /\ lastCall.returned.cached
  /\ advances > 0
  /\ \E r \in EntriesFor(lastCall.query) :
       /\ r.query # lastCall.query
       /\ JsonLoads(r.results) = PerformResearch(r.query).results
       /\ lastCall.returned.answer = GenerateAnswer(PerformResearch(r.query).results)

\* ---------------------------------------------------------------- C13
\* C13: a get_cached_research(q) that directly follows a
\* cache_research(q, a, urls, ttl) with ttl > 0 returns the answer a and the
\* source URLs stored with it (an absent or empty URL list reads back as the
\* empty list).
C13_Claim ==
  [][ ( /\ lastCall.op = "cache_research" /\ lastCall.cache_hours > 0
        /\ lastCall'.op = "get_cached_research"
        /\ lastCall'.query = lastCall.query )
      => /\ lastCall'.returned.kind = "dict"
         /\ lastCall'.returned.results = lastCall.results
         /\ lastCall'.returned.source_urls =
              IF TruthyList(lastCall.source_urls) THEN lastCall.source_urls ELSE <<>>
    ]_vars

\* ---------------------------------------------------------------- C14
\* C14: the cache key depends on the query only through its lowercased,
\* trimmed text.  Two query texts have the same key exactly if they are equal
\* after lowercasing and trimming; a lookup of q hits exactly if an
\* unexpired entry is stored under a query with the same normalized text,
\* and returns that entry; a store of q replaces the entry of every query
\* with the same normalized text and no other entry, so the table holds at
\* most one entry per normalized text.
C14_Thm ==
  [][ /\ \A q1, q2 \in QueryTexts :
           (hash_query(q1) = hash_query(q2)) <=> (Strip(Lower(q1)) = Strip(Lower(q2)))
      /\ \A r1 \in research_cache' : \A r2 \in research_cache' :
           Strip(Lower(r1.query)) = Strip(Lower(r2.query)) => r1 = r2
      /\ lastCall'.op = "get_cached_research" =>
           LET live == Unexpired(EntriesFor(lastCall'.query)) IN
           /\ lastCall'.hit <=> live # {}
           /\ \A r \in live :
                /\ lastCall'.returned.results = JsonLoads(r.results)
                /\ lastCall'.returned.cached_at = r.cached_at
           /\ \A r \in research_cache \ live : r \in research_cache'
      /\ lastCall'.op = "cache_research" =>
           \E r \in research_cache' :
              /\ r.query = lastCall'.query
              /\ r \notin research_cache
              /\ research_cache' = (research_cache \ EntriesFor(lastCall'.query)) \cup {r}
    ]_vars

\* a lookup that hit an entry stored under another spelling of the query,
\* that entry having replaced an earlier one
C14_Witness ==
  /\ lastCall.op = "get_cached_research" /\ lastCall.hit
  /\ sqlite_sequence.research_cache = 2
  /\ \E r \in research_cache :
       /\ research_cache = {r}
       /\ r.query # lastCall.query
       /\ r.id = 2
       /\ lastCall.returned.results = JsonLoads(r.results)

\* ---------------------------------------------------------------- C15
\* C15: after cache_research(q, a, urls, 0) a lookup of q made at once
\* returns nothing, and a cleanup_expired made at once removes the entry.  In
\* general a lookup returns an entry only while the time of day that
\* cache_research read is before the entry's expires_at, and after a
\* cleanup_expired no entry is left whose expires_at has been reached.
C15_Claim ==
  [][ /\ ( /\ lastCall.op = "cache_research" /\ lastCall.cache_hours = 0
           /\ lastCall'.op = "get_cached_research"
           /\ lastCall'.query = lastCall.query )
         => lastCall'.returned = NoneResult
      /\ (lastCall.op = "cache_research" /\ lastCall.cache_hours = 0
            /\ lastCall'.op = "cleanup_expired")
         => \A r \in research_cache' : r.query # lastCall.query
      /\ (lastCall'.op = "get_cached_research" /\ lastCall'.hit)
         => \A r \in EntriesFor(lastCall'.query) : DatetimeNow < r.expires_at
      /\ lastCall'.op = "cleanup_expired"
         => \A r \in research_cache' \cup resource_cache' : DatetimeNow < r.expires_at
    ]_vars

\* ---------------------------------------------------------------- C16
\* C16: a lookup that hits raises the access_count of the entry it returns
\* by one and changes nothing else, so the N-th hit of a run of consecutive
\* hits on an entry leaves its access_count N above what it was before the
\* run; a lookup that misses changes no row; a store leaves every row it
\* does not replace as it was and enters the new row with access_count 0;
\* no other operation changes an access_count.
C16_Thm ==
  [][ /\ (lastCall'.op = "get_cached_research" /\ lastCall'.hit) =>
           \E r \in Unexpired(EntriesFor(lastCall'.query)) :
              /\ research_cache' =
                   (research_cache \ {r})
                     \cup {[r EXCEPT !.access_count = r.access_count + 1]}
              /\ lastCall'.streak.id = r.id
              /\ r.access_count + 1 = lastCall'.streak.base + lastCall'.streak.hits
      /\ (lastCall'.op = "get_cached_research" /\ ~lastCall'.hit) =>
           research_cache' = research_cache
      /\ (lastCall'.op = "cache_research"
            \/ (lastCall'.op = "conduct_research" /\ ~lastCall'.returned.cached)) =>
           \E r \in research_cache' :
              /\ r.access_count = 0
              /\ r.id = sqlite_sequence'.research_cache
              /\ r.id > sqlite_sequence.research_cache
              /\ research_cache' \ {r} = research_cache \ EntriesFor(lastCall'.query)
      /\ lastCall'.op \in {"cleanup_expired", "cache_resource", "get_cached_resource",
                           "advance"} =>
           research_cache' \subseteq research_cache
    ]_vars

\* the second of two consecutive hits on an entry that had replaced another
C16_Witness ==
  /\ lastCall.op = "get_cached_research" /\ lastCall.hit
  /\ lastCall.streak.hits = 2
  /\ \E r \in research_cache :
       r.id = 2 /\ r.id = lastCall.streak.id /\ r.access_count = 2

\* ---------------------------------------------------------------- C17
\* C17: one cleanup_expired call removes, from research_cache and from
\* resource_cache alike, exactly the rows whose expires_at is before the
\* current timestamp, with a single commit; every other row stays as it
\* was, and nothing but the two tables changes.
C17_Thm ==
  [][ lastCall'.op = "cleanup_expired" =>
        /\ research_cache' = {r \in research_cache : ~(r.expires_at < CurrentTimestamp)}
        /\ resource_cache' = {r \in resource_cache : ~(r.expires_at < CurrentTimestamp)}
        /\ lastCall'.commits = 1
        /\ lastCall'.deleted.research_cache =
             Cardinality(research_cache) - Cardinality(research_cache')
        /\ lastCall'.deleted.resource_cache =
             Cardinality(resource_cache) - Cardinality(resource_cache')
        /\ UNCHANGED << sqlite_sequence, clock, utc_offset >>
    ]_vars

\* a sweep that removed an expired research entry and kept an unexpired
\* resource entry
C17_Witness ==
  /\ lastCall.op = "cleanup_expired"
  /\ lastCall.deleted.research_cache = 1
  /\ lastCall.deleted.resource_cache = 0
  /\ research_cache = {}
  /\ \E r \in resource_cache : r.expires_at > CurrentTimestamp

\* what get_cached_research and cache_stats show of a row
Observable(r) ==
  [query_hash |-> r.query_hash, results |-> JsonLoads(r.results),
   source_urls |-> UrlsOf(r), cached_at |-> r.cached_at,
   expires_at |-> r.expires_at, access_count |-> r.access_count]

\* the row is what cache_research(q, results, source_urls, cache_hours) stores
\* at the present time
StoredNowBy(r, q, results, source_urls, cache_hours) ==
  /\ r.query = q
  /\ JsonLoads(r.results) = results
  /\ UrlsOf(r) = (IF TruthyList(source_urls) THEN source_urls ELSE <<>>)
  /\ r.cached_at = CurrentTimestamp
  /\ r.expires_at = DatetimeNow + cache_hours * HourTicks

\* ---------------------------------------------------------------- C20
\* C20 (as stated): a cache_research(q, a, urls, ttl) call made while the
\* table holds the row that the same call stored at the same time leaves
\* everything that lookups and cache_stats show as it was: the entry's
\* answer, source URLs, cached_at, expires_at and access_count, the other
\* rows, and the number of rows.
C20_Claim ==
  [][ lastCall'.op = "cache_research" =>
        \A r \in research_cache :
           StoredNowBy(r, lastCall'.query, lastCall'.results,
                       lastCall'.source_urls, lastCall'.cache_hours)
           => /\ \E n \in research_cache' : Observable(n) = Observable(r)
              /\ Cardinality(research_cache') = Cardinality(research_cache)
              /\ research_cache \ {r} \subseteq research_cache'
    ]_vars

\* C20 (amended): such a repeated cache_research leaves the entry's answer,
\* source URLs, cached_at and expires_at, the other rows and the number of
\* rows as they were, and sets the entry's access_count to 0; so it is
\* without effect exactly if no lookup has hit the entry since the first
\* store.
C20_Amended ==
  [][ lastCall'.op = "cache_research" =>
        \A r \in research_cache :
           StoredNowBy(r, lastCall'.query, lastCall'.results,
                       lastCall'.source_urls, lastCall'.cache_hours)
           => /\ \E n \in research_cache' :
                   /\ Observable(n) = [Observable(r) EXCEPT !.access_count = 0]
                   /\ r.access_count = 0 => Observable(n) = Observable(r)
              /\ Cardinality(research_cache') = Cardinality(research_cache)
              /\ research_cache \ {r} \subseteq research_cache'
    ]_vars

\* a store has just replaced the row that the same call had stored at the
\* same time and that no lookup had hit
C20_Witness ==
  /\ lastCall.op = "cache_research"
  /\ \E r \in lastCall.replaced :
       /\ StoredNowBy(r, lastCall.query, lastCall.results,
                      lastCall.source_urls, lastCall.cache_hours)
       /\ r.access_count = 0
       /\ \E n \in research_cache : Observable(n) = Observable(r) /\ n.id # r.id

\* ---------------------------------------------------------------- threads: observations
\* thread t is inside a research() invocation
InResearch(t) == threads[t].pc # "idle"

\* this step is thread t passing line 272
Starts(t) == threads[t].pc = "idle" /\ threads'[t].pc = "loop"

\* this step is thread t taking the session branch of lines 166-167
SeesSessionCall(t) ==
  threads[t].pc = "check_session" /\ threads'[t].path = "session"

\* this step is thread t calling the operation (line 174)
Invokes(t) == threads[t].pc = "invoke" /\ threads'[t].pc = "write_cache"

\* this step is thread t writing the function cache (line 184 or 196)
Writes(t) == threads[t].pc = "write_cache" /\ threads'[t].pc = "add_session"

\* ---------------------------------------------------------------- C18
\* C18: when research() invocations run interleaved on one agent, the start
\* of one invocation leaves the calls recorded so far by every other running
\* invocation in the session set, and an invocation takes the "already made
\* in this research session" branch only for a call it recorded itself.
C18_Claim ==
  [][ \A t \in Threads :
        /\ Starts(t) =>
             \A u \in Threads \ {t} :
                InResearch(u) => threads[u].recorded \subseteq current_session_calls'
        /\ SeesSessionCall(t) => threads[t].cache_key \in threads[t].recorded
    ]_vars

\* ---------------------------------------------------------------- C19
\* C19: under every interleaving of _execute_tool calls on one agent, the
\* operation runs at most once per cache key, and a key that has a value in
\* the function cache is never written again.
C19_Claim ==
  [][ \A t \in Threads :
        /\ Invokes(t) =>
             DKey(threads[t].tool, threads[t].arguments) \notin DOMAIN opLog
        /\ Writes(t) => threads[t].cache_key \notin DOMAIN function_cache
    ]_vars

\* the step stores an entry: cache_research, or conduct_research after a miss
StoresEntry ==
  \/ lastCall'.op = "cache_research"
  \/ lastCall'.op = "conduct_research" /\ lastCall'.stored = 1

\* what a row holds apart from its access_count
Content(r) ==
  [id |-> r.id, query_hash |-> r.query_hash, query |-> r.query,
   results |-> r.results, source_urls |-> r.source_urls,
   cached_at |-> r.cached_at, expires_at |-> r.expires_at]

\* ---------------------------------------------------------------- C21
\* C21: the research cache never holds two rows with the same query hash.
\* A cache_research(q, a, urls, ttl) leaves exactly one row for the hash of
\* q, holding a, the text of q as given and the expiry computed at that
\* store (the time of day read by the store plus ttl hours); lookups and
\* sweeps never alter the answer, query text or expiry of a row, so each row
\* is that of the most recent store for its key.
C21_Thm ==
  [][ /\ \A r1 \in research_cache' : \A r2 \in research_cache' :
           r1.query_hash = r2.query_hash => r1 = r2
      /\ lastCall'.op = "cache_research" =>
           \E r \in research_cache' :
              /\ \A x \in research_cache' :
                   Strip(Lower(x.query)) = Strip(Lower(lastCall'.query)) => x = r
              /\ r.query = lastCall'.query
              /\ JsonLoads(r.results) = lastCall'.results
              /\ r.expires_at = DatetimeNow + lastCall'.cache_hours * HourTicks
      /\ lastCall'.op \in {"get_cached_research", "cleanup_expired"} =>
           \A n \in research_cache' :
              \E r \in research_cache : Content(n) = Content(r)
    ]_vars

\* a store has replaced an entry of the same key that held another answer
\* and another expiry
C21_Witness ==
  /\ lastCall.op = "cache_research"
  /\ \E old \in lastCall.replaced : \E r \in research_cache :
       /\ research_cache = {r}
       /\ r.query_hash = old.query_hash
       /\ r.results # old.results
       /\ r.expires_at # old.expires_at
       /\ r.query # old.query
       /\ JsonLoads(r.results) = lastCall.results

\* the lookups that returned the rows now stored, counted from the log
RECURSIVE LoggedHits(_)
LoggedHits(ids) ==
  IF ids = {} THEN 0
  ELSE LET id == CHOOSE x \in ids : TRUE
       IN hitLog[id] + LoggedHits(ids \ {id})

\* ---------------------------------------------------------------- C22
\* C22: in every state, what cache_stats computes for the research cache is
\* entries = the number of rows in the table and total_hits = the number of
\* lookups that have returned the rows now stored, each counted since the
\* store that entered the row (0 when the table is empty); and a cache_stats
\* call returns these figures.
C22_Thm ==
  /\ DOMAIN hitLog = {r.id : r \in research_cache}
  /\ CacheStats.research_cache.entries = Cardinality(research_cache)
  /\ CacheStats.research_cache.total_hits = LoggedHits(DOMAIN hitLog)
  /\ research_cache = {} => CacheStats.research_cache.total_hits = 0
  /\ lastCall.op = "cache_stats" =>
       /\ lastCall.returned.research_cache.entries = Cardinality(research_cache)
       /\ lastCall.returned.research_cache.total_hits = LoggedHits(DOMAIN hitLog)

\* cache_stats called with two entries stored, one returned once and one
\* returned twice
C22_Witness ==
  /\ lastCall.op = "cache_stats"
  /\ lastCall.returned.research_cache.entries = 2
  /\ lastCall.returned.research_cache.total_hits = 3
  /\ \E id \in DOMAIN hitLog : hitLog[id] = 2

\* ---------------------------------------------------------------- C23
\* the similarity of a cached entry to a query
SimilarityTo(r, q) == Similarity(Encode(r.query), Encode(q))

\* the most similar of a set of entries, the first encountered among equals
FirstMostSimilar(rows, q) ==
  CHOOSE r \in rows :
    \A x \in rows :
      \/ SimilarityTo(x, q) < SimilarityTo(r, q)
      \/ SimilarityTo(x, q) = SimilarityTo(r, q) /\ r.id <= x.id

\* C23: a semantic lookup whose greatest similarity to an unexpired entry is
\* exactly at the threshold, or above it, is a hit that returns the most
\* similar unexpired entry, the first encountered among equally similar ones;
\* a lookup whose greatest similarity is strictly below the threshold, or that
\* finds no unexpired entry, is a miss.
C23_Thm ==
  [][ lastCall'.op = "semantic_lookup" =>
        LET q == lastCall'.query
            t == lastCall'.threshold
            live == Unexpired(research_cache)
            reached == {r \in live : SimilarityTo(r, q) * t.den >= t.num * UnitNorm2}
        IN /\ reached # {} =>
                /\ lastCall'.hit
                /\ lastCall'.returned = ResearchDict(FirstMostSimilar(live, q))
                /\ lastCall'.id = FirstMostSimilar(live, q).id
           /\ reached = {} =>
                /\ ~lastCall'.hit
                /\ lastCall'.returned = NoneResult
                /\ research_cache' = research_cache ]_vars

\* a lookup exactly at the threshold, of a text no entry holds, with two
\* equally similar unexpired entries: the first one stored is returned
C23_Witness ==
  /\ lastCall.op = "semantic_lookup"
  /\ lastCall.hit
  /\ lastCall.similarity * lastCall.threshold.den = lastCall.threshold.num * UnitNorm2
  /\ \A r \in research_cache : r.query # lastCall.query
  /\ \E a, b \in Unexpired(research_cache) :
        /\ a.id < b.id
        /\ SimilarityTo(a, lastCall.query) = SimilarityTo(b, lastCall.query)
        /\ lastCall.id = a.id

\* ---------------------------------------------------------------- C24
\* the position of the last model response before position i
ResponseBefore(msgs, i) ==
  CHOOSE a \in 1..(i - 1) :
    /\ msgs[a].role = "assistant"
    /\ \A j \in (a + 1)..(i - 1) : msgs[j].role # "assistant"

\* system, user, then model responses each followed by the tool entries of
\* its tool calls, in the order of the calls; every response but the last
\* has all its tool entries
Ordered(msgs) ==
  /\ Len(msgs) >= 2
  /\ msgs[1].role = "system"
  /\ msgs[2].role = "user"
  /\ \A i \in 3..Len(msgs) :
        /\ msgs[i].role \in {"assistant", "tool"}
        /\ i = 3 => msgs[i].role = "assistant"
        /\ msgs[i].role = "tool" =>
              LET a == ResponseBefore(msgs, i)
              IN /\ i - a <= Len(msgs[a].tool_calls)
                 /\ msgs[i].name = msgs[a].tool_calls[i - a].name
        /\ msgs[i].role = "assistant" /\ i > 3 =>
              LET a == ResponseBefore(msgs, i)
              IN /\ msgs[a].tool_calls # <<>>
                 /\ i - a - 1 = Len(msgs[a].tool_calls)

\* the tool entries that follow the last model response
EntriesOfLastResponse(msgs) ==
  LET a == ResponseBefore(msgs, Len(msgs) + 1)
  IN [done |-> Len(msgs) - a, tool_calls |-> msgs[a].tool_calls]

\* C24: within one research invocation the conversation starts with the
\* system instruction and the user query and only grows at its end; a model
\* response is appended before its tool results; the tool calls of a response
\* are dispatched one by one in the order received, the result of each being
\* appended by the step that dispatches it; and the model is called again
\* only when every tool call of the previous response has its tool entry.
C24_Thm ==
  [][ /\ lastOp' = "research" /\ ~simulation =>
            messages' = << [role |-> "system", content |-> SystemPrompt],
                           [role |-> "user", content |-> query'] >>
      /\ lastOp' \in {"model", "dispatch"} =>
            /\ Ordered(messages')
            /\ \/ messages' = messages
               \/ /\ Len(messages') = Len(messages) + 1
                  /\ SubSeq(messages', 1, Len(messages)) = messages
      /\ lastOp' = "model" =>
            /\ pending = <<>>
            /\ Len(messages) > 2 =>
                  EntriesOfLastResponse(messages).done
                    = Len(EntriesOfLastResponse(messages).tool_calls)
            /\ serviceCalls' = serviceCalls + 1
            /\ Len(messages') > Len(messages) => Last(messages').role = "assistant"
      /\ lastOp' = "dispatch" /\ lastDispatch'.made =>
            LET e == EntriesOfLastResponse(messages)
                call == e.tool_calls[e.done + 1]
            IN /\ lastDispatch'.tool = call.name
               /\ lastDispatch'.raw = call.arguments.dict
               /\ messages' = Append(messages,
                     [role |-> "tool", content |-> lastDispatch'.result,
                      name |-> call.name, tool_call_id |-> Last(messages').tool_call_id])
               /\ \A k \in 1..e.done : messages[Len(messages) - e.done + k].role = "tool"
      /\ lastOp' = "dispatch" /\ ~lastDispatch'.made => messages' = messages ]_vars

\* the second tool call of a response that asks for two different calls has
\* just been dispatched, after the entry of the first one
C24_Witness ==
  /\ lastOp = "dispatch"
  /\ lastDispatch.made
  /\ Len(messages) = 5
  /\ messages[3].role = "assistant"
  /\ Len(messages[3].tool_calls) = 2
  /\ messages[3].tool_calls[1].name # messages[3].tool_calls[2].name
  /\ messages[4].role = "tool"
  /\ messages[5].role = "tool"
  /\ messages[5].name = messages[3].tool_calls[2].name

\* ---------------------------------------------------------------- C29
\* C29: with research(), _execute_tool and clear_cache run one after the
\* other on one agent, every key of the session call set is a key of the
\* durable function cache; so no _execute_tool call returns a text that
\* starts with "[CACHED]", no tool entry of the conversation carries one,
\* and every result research() returns reports cached_calls = 0 and
\* unique_calls equal to the number of calls of its reasoning history (none
\* in simulation mode).
C29_Thm ==
  /\ current_session_calls \subseteq DOMAIN function_cache
  /\ lastDispatch.made =>
        /\ ~StartsWithCached(lastDispatch.result)
        /\ lastDispatch.path # "session"
  /\ \A i \in DOMAIN messages :
        messages[i].role = "tool" => ~StartsWithCached(messages[i].content)
  /\ cached_calls = 0
  /\ ret.kind = "result" =>
        /\ ret.cached_calls = 0
        /\ ret.unique_calls = IF ret = SimulatedResult THEN 0 ELSE Len(ret.reasoning)

\* research() has returned after the same call was requested twice in the
\* invocation, with the session set still holding its key
C29_Witness ==
  /\ lastOp = "return"
  /\ ret.kind = "result"
  /\ ret # SimulatedResult
  /\ Len(ret.reasoning) = 2
  /\ CacheKey(ret.reasoning[1][1], ret.reasoning[1][2])
       = CacheKey(ret.reasoning[2][1], ret.reasoning[2][2])
  /\ ret.unique_calls = 2
  /\ current_session_calls # {}

\* ---------------------------------------------------------------- C28
\* the cache_hours of the store made by the step, which conduct_research
\* leaves at its default
StoredHours ==
  IF lastCall'.op = "cache_research" THEN lastCall'.cache_hours
  ELSE DefaultResearchHours

\* C28: every store leaves its entry with expires_at = cached_at + the
\* cache_hours of that store, and no other operation changes the expires_at
\* of an entry; a lookup hit does not extend it.
C28_Claim ==
  [][ /\ StoresEntry =>
            \A r \in research_cache' :
               r.id = sqlite_sequence'.research_cache =>
                  r.expires_at = r.cached_at + StoredHours * HourTicks
      /\ ~StoresEntry =>
            \A n \in research_cache' : \A r \in research_cache :
               n.id = r.id => n.expires_at = r.expires_at ]_vars

\* ---------------------------------------------------------------- C25
\* the positions of the tool entries of the conversation
ToolPositions == {i \in DOMAIN messages : messages[i].role = "tool"}

\* the rank of a tool entry among the tool entries
RankOf(i) == Cardinality({j \in ToolPositions : j <= i})

\* C25: _synthesize_knowledge returns the fallback summary only when its
\* call to the reasoning service fails, and then always returns one: the
\* summary carries the query, every recorded call with its tool name and
\* arguments in order, and for every tool entry of the conversation, in
\* order, its tool name and the first min(200, length) characters of its
\* text; the closing "no data" note is there exactly when the conversation
\* has no tool entry.  _create_fallback_summary called on its own returns
\* the same summary.
C25_Thm ==
  lastOp \in {"synthesize_knowledge", "create_fallback_summary"} =>
    /\ ret.kind = "result"
    /\ lastOp = "synthesize_knowledge" =>
          /\ ret.results[1] = "fallback" <=> lastDispatch.synthesis = <<"raise">>
          /\ ret.results[1] # "fallback" => ret.results = lastDispatch.synthesis
    /\ ret.results[1] = "fallback" =>
          /\ ret.results[2] = query
          /\ ret.results[3] = function_call_history
          /\ Len(ret.results[4]) = Cardinality(ToolPositions)
          /\ \A i \in ToolPositions :
                LET entry == ret.results[4][RankOf(i)]
                    text == messages[i].content
                IN /\ entry.tool = messages[i].name
                   /\ Len(entry.prefix200) <= PrefixChars
                   /\ Len(entry.prefix200) <= Len(text)
                   /\ Len(text) <= PrefixChars => entry.prefix200 = text
                   /\ \A k \in 1..Len(entry.prefix200) : entry.prefix200[k] = text[k]
                   /\ Len(text) > PrefixChars => Len(entry.prefix200) = PrefixChars
          /\ ret.results[5] <=> ToolPositions = {}

\* the reasoning service failed and the fallback cut one text of 201
\* characters down to 200 and kept one of 199 whole
C25_Witness ==
  /\ lastOp = "synthesize_knowledge"
  /\ lastDispatch.synthesis = <<"raise">>
  /\ ret.kind = "result"
  /\ ret.results[1] = "fallback"
  /\ Len(ret.results[3]) = 2
  /\ Len(ret.results[4]) = 2
  /\ Len(messages[4].content) = PrefixChars + 1
  /\ Len(ret.results[4][1].prefix200) = PrefixChars
  /\ Len(ret.results[4][2].prefix200) = PrefixChars - 1
  /\ ~ret.results[5]

\* ---------------------------------------------------------------- C26
\* the explorer has returned
Explored == exploration.op \in {"explore", "explore_result"}

\* every position of `out` at depth m holds the marker; `out` is at depth d
RECURSIVE DepthBounded(_, _, _)
DepthBounded(out, d, m) ==
  IF d >= m THEN out = Truncated
  ELSE CASE out.t = "list" ->
              \A i \in DOMAIN out.items : DepthBounded(out.items[i], d + 1, m)
         [] out.t = "dict" ->
              \A i \in DOMAIN out.entries : DepthBounded(out.entries[i][2], d + 1, m)
         [] OTHER -> TRUE

\* the value of the attribute or entry `key`
ValueAt(items, key) ==
  LET i == CHOOSE j \in DOMAIN items : items[j][1] = key IN items[i][2]

\* above depth m, a None or primitive of `val` is the same value in `out`
RECURSIVE ScalarsPass(_, _, _, _)
ScalarsPass(val, out, d, m) ==
  IF d >= m THEN TRUE
  ELSE CASE val.t \in {"none", "prim"} -> out = val
         [] val.t = "list" ->
              /\ out.t = "list"
              /\ \A i \in DOMAIN out.items :
                    ScalarsPass(val.items[i], out.items[i], d + 1, m)
         [] val.t = "dict" ->
              /\ out.t = "dict"
              /\ \A i \in DOMAIN out.entries :
                    ScalarsPass(val.entries[i][2], out.entries[i][2], d + 1, m)
         [] val.t \in {"obj", "ref"} ->
              /\ out.t = "dict"
              /\ \A i \in DOMAIN out.entries :
                    ScalarsPass(ValueAt(Attributes(val), out.entries[i][1]),
                                out.entries[i][2], d + 1, m)
         [] OTHER -> out.t = "prim"

\* C26: _explore_object_recursively(value, max_depth) returns for every
\* value, objects that refer to themselves included; in what it returns
\* every position at depth max_depth holds the "truncated" marker, so nothing
\* nests deeper, and every None or primitive scalar above that depth is the
\* scalar of the input.
C26_Thm ==
  Explored =>
    /\ DepthBounded(exploration.returned, 0, exploration.max_depth)
    /\ ScalarsPass(exploration.obj, exploration.returned, 0, exploration.max_depth)

\* an object that refers to itself, explored to depth 4: its name passes at
\* depths 1 to 3 and the marker stands at depth 4
C26_Witness ==
  /\ exploration.op = "explore_result"
  /\ exploration.obj = Ref(1)
  /\ LET d1 == ValueAt(exploration.returned.entries, Key(3))
         d2 == ValueAt(d1.entries, Key(3))
         d3 == ValueAt(d2.entries, Key(3))
     IN /\ ValueAt(d2.entries, Key(1)) = Prim("pikachu")
        /\ ValueAt(d3.entries, Key(1)) = Truncated
        /\ ValueAt(d3.entries, Key(3)) = Truncated

\* ---------------------------------------------------------------- C27
\* no list of `out` has more than SampleSize items, no mapping more than
\* DictLimit entries
RECURSIVE BreadthBounded(_)
BreadthBounded(out) ==
  CASE out.t = "list" ->
         /\ Len(out.items) <= SampleSize
         /\ \A i \in DOMAIN out.items : BreadthBounded(out.items[i])
    [] out.t = "dict" ->
         /\ Len(out.entries) <= DictLimit
         /\ \A i \in DOMAIN out.entries : BreadthBounded(out.entries[i][2])
    [] OTHER -> TRUE

\* above depth m, every list of `out` holds the explored leading items of
\* the list of `val` at its place, in their order
RECURSIVE LeadingKept(_, _, _, _)
LeadingKept(val, out, d, m) ==
  IF d >= m THEN TRUE
  ELSE CASE val.t = "list" ->
              /\ out.t = "list"
              /\ Len(out.items) <= Len(val.items)
              /\ \A i \in DOMAIN out.items :
                    /\ out.items[i] = explore_object_recursively(val.items[i], m, d + 1)
                    /\ LeadingKept(val.items[i], out.items[i], d + 1, m)
         [] val.t = "dict" ->
              \A i \in DOMAIN out.entries :
                 LeadingKept(val.entries[i][2], out.entries[i][2], d + 1, m)
         [] val.t \in {"obj", "ref"} ->
              \A i \in DOMAIN out.entries :
                 LeadingKept(ValueAt(Attributes(val), out.entries[i][1]),
                             out.entries[i][2], d + 1, m)
         [] OTHER -> TRUE

\* C27: in what _explore_object_recursively returns, every list has at most
\* 5 items, which are the explored leading items of the input list in
\* their order, and every mapping, whether it comes from a dict or from an
\* expanded object, has at most 15 entries.
C27_Claim ==
  Explored =>
    /\ BreadthBounded(exploration.returned)
    /\ LeadingKept(exploration.obj, exploration.returned, 0, exploration.max_depth)

\* ---------------------------------------------------------------- C30
\* C30: with get_cached_research, cache_research and cleanup_expired calls
\* of several requests interleaved, every lookup that returns a hit leaves
\* the entry stored for its key with an access_count one higher than before
\* its update.
C30_Claim ==
  [][ lastCall'.op = "get_cached_research" /\ lastCall'.hit =>
        \E r \in research_cache : \E n \in research_cache' :
           /\ r.query_hash = hash_query(lastCall'.query)
           /\ n.query_hash = r.query_hash
           /\ n.access_count = r.access_count + 1 ]_vars

\* ---------------------------------------------------------------- C31
\* C31: every result of a research() call outside simulation mode with
\* max_iterations >= 1 reports as iterations_used the number of
\* chat.completions.create calls its loop made, the call that failed in
\* transport and the call that gave the final answer included and the call
\* of _synthesize_knowledge left out; and 1 <= iterations_used <=
\* max_iterations.
C31_Thm ==
  lastOp = "return" /\ ret.kind = "result" /\ max_iterations >= 1 =>
    /\ ret.iterations_used = serviceCalls
    /\ 1 <= ret.iterations_used
    /\ ret.iterations_used <= max_iterations

\* the second call of the loop failed in transport after a round of tool
\* calls, and the synthesizer made its own call
C31_Witness ==
  /\ lastOp = "return"
  /\ ret.kind = "result"
  /\ loopExit = "transport"
  /\ max_iterations = 2
  /\ ret.iterations_used = 2
  /\ serviceCalls = 2
  /\ synthCalls = 1
====
